---- MODULE Spec2Model ----
(***************************************************************************)
(* Submission verification pipeline of geoquests (backend/app).            *)
(*                                                                         *)
(* One create_submission request is followed from the arrival of the       *)
(* request to its response: the analyzers run in the order of the route,   *)
(* every database call and the storage call either succeed or raise, and   *)
(* the two exception handlers of the route are modelled as written.        *)
(*                                                                         *)
(* Conventions.  An optional value is a sequence of length 0 (None) or 1.  *)
(* A formatted message is a tuple <<template, arguments...>>.  Coordinates *)
(* are points of one meridian, given as metres of arc from a reference     *)
(* point, so the great-circle distance of two points is the absolute       *)
(* difference of their coordinates.                                         *)
(***************************************************************************)
EXTENDS Integers, Sequences, FiniteSets, TLC

(***************************************************************************)
(* Bounds and input sets                                                   *)
(***************************************************************************)
MaxFaces == 1
MaxDetections == 5

None == <<>>
Some(x) == <<x>>
IsSome(o) == Len(o) = 1
Val(o) == o[1]

Positions == {50, 51}
Accuracies == {None, Some(99), Some(100)}
ExifPositions == {0, 101}
Quests == {[position |-> 0, radius_meters |-> 50]}
ImageSizes == {<<320, 240>>, <<640, 480>>}
EdgeVariances == {499, 500}
Brightnesses == {49, 50}
CaptureMethods == {"live", "upload"}

GpsArgAccuracies == {None, Some(0), Some(99), Some(100), Some(150)}
GpsArgPositions == {0, 49, 50, 51, 100, 500}
GpsArgRadii == {50, 100}

(***************************************************************************)
(* Program constants                                                       *)
(***************************************************************************)
AccuracyLimit == 100
EXIF_TOLERANCE_METERS == 50
MIN_WIDTH == 640
MIN_HEIGHT == 480
BLUR_THRESHOLD == 500
DARK_THRESHOLD == 50
GEMINI_CONTENT_MATCH_MIN_SCORE == 15

MsgBlur == <<"Image is too blurry. Please take a clearer photo.">>
MsgDark == <<"Image is too dark. Please take a photo with better lighting.">>
MsgSmall == <<"Image is too small. Minimum size: 640x480 pixels.">>
MsgScreenOrFake == <<"Photo appears to be a screenshot, photo of a screen, or AI-generated.">>
MsgInauthentic == <<"Photo could not be verified as authentic.">>
MsgContentMismatch == "Photo doesn't appear to match the quest."
TplLowAccuracy == "GPS accuracy too low (%m). Move to an open area for better signal."
TplOutOfRange == "You are %m away from the quest location. Get within %m to complete it."
TplGpsOk == "Location verified successfully"
TplExifNoGps == "No GPS data in EXIF (warning only)"
TplExifMismatch == "EXIF GPS location (%m away) doesn't match submitted location"
TplExifOk == "EXIF GPS location matches submitted location"
TplProcessingError == "Processing error: %s"

\* substring test `"away" in reason` on the templates above
ContainsAway(msg) == msg[1] \in {TplOutOfRange, TplExifMismatch}

(***************************************************************************)
(* Pure functions                                                          *)
(***************************************************************************)
Abs(x) == IF x < 0 THEN -x ELSE x
Max(a, b) == IF a > b THEN a ELSE b
Min(a, b) == IF a < b THEN a ELSE b

haversine_distance(p1, p2) == Abs(p2 - p1)

\* verify_gps_location accepting an accuracy of exactly the limit
verify_gps_location_StrictAccuracy(explorer, explorer_accuracy, quest, quest_radius) ==
    LET distance == haversine_distance(explorer, quest) IN
    IF IsSome(explorer_accuracy) /\ Val(explorer_accuracy) > AccuracyLimit
    THEN [verified |-> FALSE, distance_meters |-> distance,
          reason |-> <<TplLowAccuracy, Val(explorer_accuracy)>>]
    ELSE IF distance > quest_radius
    THEN [verified |-> FALSE, distance_meters |-> distance,
          reason |-> <<TplOutOfRange, distance, quest_radius>>]
    ELSE [verified |-> TRUE, distance_meters |-> distance,
          reason |-> <<TplGpsOk>>]

verify_gps_location(explorer, explorer_accuracy, quest, quest_radius) ==
    LET distance == haversine_distance(explorer, quest) IN
    IF IsSome(explorer_accuracy) /\ Val(explorer_accuracy) >= AccuracyLimit
    THEN [verified |-> FALSE, distance_meters |-> distance,
          reason |-> <<TplLowAccuracy, Val(explorer_accuracy)>>]
    ELSE IF distance > quest_radius
    THEN [verified |-> FALSE, distance_meters |-> distance,
          reason |-> <<TplOutOfRange, distance, quest_radius>>]
    ELSE [verified |-> TRUE, distance_meters |-> distance,
          reason |-> <<TplGpsOk>>]

\* exif_data as returned by extract_exif_metadata: has_gps and the position
NoExifGps == [has_gps |-> FALSE, gps |-> None]
ExifGps(p) == [has_gps |-> TRUE, gps |-> Some(p)]

\* validate_exif_location rejecting a distance equal to the tolerance
validate_exif_location_AtTolerance(exif_data, submitted) ==
    IF ~exif_data.has_gps
    THEN [matches |-> TRUE, distance_meters |-> None, reason |-> <<TplExifNoGps>>]
    ELSE LET distance == haversine_distance(Val(exif_data.gps), submitted) IN
         IF distance >= EXIF_TOLERANCE_METERS
         THEN [matches |-> FALSE, distance_meters |-> Some(distance),
               reason |-> <<TplExifMismatch, distance>>]
         ELSE [matches |-> TRUE, distance_meters |-> Some(distance),
               reason |-> <<TplExifOk>>]

validate_exif_location(exif_data, submitted) ==
    IF ~exif_data.has_gps
    THEN [matches |-> TRUE, distance_meters |-> None, reason |-> <<TplExifNoGps>>]
    ELSE LET distance == haversine_distance(Val(exif_data.gps), submitted) IN
         IF distance > EXIF_TOLERANCE_METERS
         THEN [matches |-> FALSE, distance_meters |-> Some(distance),
               reason |-> <<TplExifMismatch, distance>>]
         ELSE [matches |-> TRUE, distance_meters |-> Some(distance),
               reason |-> <<TplExifOk>>]

\* An image as the quality analyzer sees it
\* opens: Image.open reads the header (mode and size); loads: the pixel data decodes
\* when convert, filter or ImageStat first needs it
UndecodableImage ==
    [opens |-> FALSE, loads |-> FALSE, mode |-> "RGB", w |-> 0, h |-> 0,
     edge_variance |-> 0, brightness |-> 0]
TruncatedImage(mode, w, h) ==
    [opens |-> TRUE, loads |-> FALSE, mode |-> mode, w |-> w, h |-> h,
     edge_variance |-> 0, brightness |-> 0]
DecodedImage(w, h, v, b) ==
    [opens |-> TRUE, loads |-> TRUE, mode |-> "RGB", w |-> w, h |-> h,
     edge_variance |-> v, brightness |-> b]

\* check_image_quality taking 50 off a blurry image
check_image_quality_BlurCostsFifty(img) ==
    IF ~img.opens \/ ~img.loads
    THEN [score |-> 0, is_blurry |-> FALSE, is_too_dark |-> FALSE,
          is_too_small |-> img.opens /\ img.mode = "L"
                           /\ (img.w < MIN_WIDTH \/ img.h < MIN_HEIGHT)]
    ELSE LET small == img.w < MIN_WIDTH \/ img.h < MIN_HEIGHT
             blurry == img.edge_variance < BLUR_THRESHOLD
             dark == img.brightness < DARK_THRESHOLD
             s == 100 - (IF small THEN 30 ELSE 0) - (IF blurry THEN 50 ELSE 0)
                      - (IF dark THEN 20 ELSE 0)
         IN [score |-> Max(0, Min(100, s)), is_blurry |-> blurry,
             is_too_dark |-> dark, is_too_small |-> small]

\* lines 185-244.  The except clause of line 240 sets the score to 0 and keeps the
\* flags already set: Image.open (197) and, unless the mode is L, convert (199) fail
\* before any flag is set; the pixels of an image of mode L are first decoded by
\* filter (215), after the size check of lines 207-209
check_image_quality(img) ==
    IF ~img.opens \/ (~img.loads /\ img.mode # "L")
    THEN [score |-> 0, is_blurry |-> FALSE, is_too_dark |-> FALSE, is_too_small |-> FALSE]
    ELSE IF ~img.loads
    THEN [score |-> 0, is_blurry |-> FALSE, is_too_dark |-> FALSE,
          is_too_small |-> img.w < MIN_WIDTH \/ img.h < MIN_HEIGHT]
    ELSE LET small == img.w < MIN_WIDTH \/ img.h < MIN_HEIGHT
             blurry == img.edge_variance < BLUR_THRESHOLD
             dark == img.brightness < DARK_THRESHOLD
             s == 100 - (IF small THEN 30 ELSE 0) - (IF blurry THEN 40 ELSE 0)
                      - (IF dark THEN 20 ELSE 0)
         IN [score |-> Max(0, Min(100, s)), is_blurry |-> blurry,
             is_too_dark |-> dark, is_too_small |-> small]

(***************************************************************************)
(* State                                                                   *)
(***************************************************************************)
VARIABLES
    pc,                   \* position of the request in create_submission
    request,              \* the parsed request: location_obj, capture_method, quest
    db,                   \* the committed row of the submission (None before it exists)
    submission,           \* the session's Submission object (uncommitted attributes)
    image_store,          \* the images written by save_image
    processed_image,      \* output of detect_and_blur_faces
    quality_result,       \* output of check_image_quality
    gps_result,           \* output of verify_gps_location (None when skipped)
    exif_data,            \* output of extract_exif_metadata
    exif_validation,      \* output of validate_exif_location (None when not called)
    gemini_result,        \* output of verify_with_gemini
    verification_errors,  \* the list of blocking findings, in the order appended
    verification_result,  \* the dict of analyzer outputs
    calls,                \* the analyzers called so far, in order, with the bytes given
    exc,                  \* the exception raised inside the pipeline's try block
    response,             \* what the request returned
    viewed,               \* what a later get_submission returned
    fn_args, fn_result,   \* arguments and result of a direct call of a pure function
    gem_pc,               \* position of a call of verify_with_gemini ("idle": no call)
    api_key,              \* settings.GEMINI_API_KEY is set
    http_options,         \* the HttpRetryOptions given to the client (None: unsupported)
    attempt,              \* index of the retry loop of verify_with_gemini
    tries,                \* HTTP requests sent by the current generate_content call
    http_attempts,        \* HTTP requests sent to the service since the call began
    error,                \* the exception of the latest failed step
    sleeps,               \* the delays passed to time.sleep, in order
    gem_result,           \* the value verify_with_gemini returned
    magic_link,           \* the committed row of a MagicLinkToken (None: no token)
    users,                \* the committed User row of the token's email (None: no row)
    sessions,             \* the calls of verify_magic_link, each in its own session
    rows,                 \* the committed submissions of two runs, by submission id
    files,                \* the files written by save_image in two runs, by path
    runs,                 \* the local state of two runs of create_submission
    face_detection        \* the module's FaceDetection object: the image it was last given

vars == <<pc, request, db, submission, image_store, processed_image, quality_result,
          gps_result, exif_data, exif_validation, gemini_result, verification_errors,
          verification_result, calls, exc, response, viewed, fn_args, fn_result,
          gem_pc, api_key, http_options, attempt, tries, http_attempts, error, sleeps,
          gem_result, magic_link, users, sessions, rows, files, runs, face_detection>>

analysis == <<processed_image, quality_result, gps_result, exif_data, exif_validation,
              gemini_result, verification_errors, verification_result, calls>>
gem_vars == <<gem_pc, api_key, http_options, attempt, tries, http_attempts, error, sleeps,
              gem_result>>
other_vars == <<magic_link, users, sessions, rows, files, runs, face_detection>>
fn_vars == <<viewed, fn_args, fn_result, gem_vars, other_vars>>

Finding(code, message) == [code |-> code, message |-> message]

\* append_errors putting the new finding at the front of the list
append_errors_Prepend(errors, findings) == findings \o errors

\* verification_errors.append(...): a new finding goes to the end of the list
append_errors(errors, findings) == errors \o findings

\* NewSubmission created with the path of the image already set
NewSubmission_PathPreset(req) ==
    [status |-> "processing", rejection_reason |-> None, image_url_full |-> "quests/q/submissions/s.jpg",
     captured_accuracy |-> req.location_obj.accuracy, capture_method |-> req.capture_method,
     verification_result |-> None, quality_score |-> None, content_match_score |-> None,
     faces_detected |-> 0, faces_blurred |-> 0, gemini_result |-> None]

\* models/submission.py: the columns the pipeline writes
NewSubmission(req) ==
    [status |-> "processing", rejection_reason |-> None, image_url_full |-> "",
     captured_accuracy |-> req.location_obj.accuracy, capture_method |-> req.capture_method,
     verification_result |-> None, quality_score |-> None, content_match_score |-> None,
     faces_detected |-> 0, faces_blurred |-> 0, gemini_result |-> None]

\* The bytes of the upload and of the images derived from it
OriginalImage(decodable) == [redacted |-> FALSE, decodable |-> decodable]
RedactedImage == [redacted |-> TRUE, decodable |-> TRUE]
RelativePath == "quests/q/submissions/s.jpg"

\* One entry of the call history: the analyzer and the image bytes passed to it
Call(analyzer, image_bytes) == [analyzer |-> analyzer, image_bytes |-> image_bytes]

Requests ==
    [location_obj : [lat : Positions, accuracy : Accuracies],
     capture_method : CaptureMethods, quest : Quests]

InitPipeline ==
    /\ pc = "start"
    /\ request = None
    /\ db = None
    /\ submission = None
    /\ image_store = {}
    /\ processed_image = None
    /\ quality_result = None
    /\ gps_result = None
    /\ exif_data = None
    /\ exif_validation = None
    /\ gemini_result = None
    /\ verification_errors = <<>>
    /\ verification_result = <<>>
    /\ calls = <<>>
    /\ exc = None
    /\ response = None
    /\ viewed = None

\* no call of verify_magic_link and no pair of concurrent runs is being followed
InitOthersIdle ==
    /\ magic_link = None
    /\ users = None
    /\ sessions = <<>>
    /\ rows = <<>>
    /\ files = <<>>
    /\ runs = <<>>
    /\ face_detection = None

\* no call of verify_with_gemini is being followed
InitVerifierIdle ==
    /\ gem_pc = "idle"
    /\ api_key = FALSE
    /\ http_options = None
    /\ attempt = 0
    /\ tries = 0
    /\ http_attempts = 0
    /\ error = None
    /\ sleeps = <<>>
    /\ gem_result = None
    /\ InitOthersIdle

Init ==
    /\ InitPipeline
    /\ fn_args = None
    /\ fn_result = None
    /\ InitVerifierIdle

(***************************************************************************)
(* create_submission, lines 116-196: validation and creation of the record *)
(***************************************************************************)
Respond(kind, status_code, code) == [kind |-> kind, status_code |-> status_code, code |-> code]

\* lines 117-180: a request that fails validation never creates a record
RejectRequest ==
    /\ pc = "start"
    /\ \E e \in {<<400, "INVALID_REQUEST">>, <<404, "QUEST_NOT_FOUND">>, <<400, "QUEST_NOT_ACTIVE">>} :
          response' = Some(Respond("validation_error", e[1], e[2]))
    /\ pc' = "done"
    /\ UNCHANGED <<request, db, submission, image_store, analysis, exc, fn_vars>>

\* lines 181-196: the record is committed in status processing
CreateRecord ==
    /\ pc = "start"
    /\ \E req \in Requests :
          /\ request' = Some(req)
          /\ \/ \* db.commit() and db.refresh() succeed
                /\ db' = Some(NewSubmission(req))
                /\ submission' = Some(NewSubmission(req))
                /\ pc' = "faces"
                /\ UNCHANGED response
             \/ \* db.commit() raises: outer handler, rollback, no row
                /\ UNCHANGED <<db, submission>>
                /\ response' = Some(Respond("create_failed", 500, "commit"))
                /\ pc' = "done"
             \/ \* db.refresh() raises after the commit: outer handler, the row stays
                /\ db' = Some(NewSubmission(req))
                /\ submission' = Some(NewSubmission(req))
                /\ response' = Some(Respond("create_failed", 500, "refresh"))
                /\ pc' = "done"
    /\ UNCHANGED <<image_store, analysis, exc, fn_vars>>

(***************************************************************************)
(* create_submission, lines 198-344: the analyzers                         *)
(***************************************************************************)
\* An exception inside the try block of line 202 is caught at line 381
Raise(e) ==
    /\ exc' = Some(e)
    /\ pc' = "except"

\* Each detection of the model, TRUE when its padded and clamped region is
\* not empty (photo_processor.py line 68)
DetectionsUpTo(n) == UNION {[1..k -> BOOLEAN] : k \in 0..n}
Detections == DetectionsUpTo(MaxFaces)
CountBlurred(ds) == Cardinality({i \in DOMAIN ds : ds[i]})

\* detect_and_blur_faces keeping the counts reached when a step fails
detect_and_blur_faces_KeepCounts(image_bytes, outcome) ==
    IF outcome.ok
    THEN <<RedactedImage, Len(outcome.detections), CountBlurred(outcome.detections)>>
    ELSE <<image_bytes, Len(outcome.detections), CountBlurred(outcome.detections)>>

\* photo_processor.py lines 19-86: the result (processed_bytes, faces_detected,
\* faces_blurred); any exception returns the input bytes and zero counts
detect_and_blur_faces(image_bytes, outcome) ==
    IF outcome.ok
    THEN <<RedactedImage, Len(outcome.detections), CountBlurred(outcome.detections)>>
    ELSE <<image_bytes, 0, 0>>

FaceOutcomes(image_bytes) ==
    {[ok |-> FALSE, detections |-> <<>>]}
        \cup (IF image_bytes.decodable
              THEN {[ok |-> TRUE, detections |-> ds] : ds \in Detections}
              ELSE {})

\* lines 203-206
BlurFaces ==
    /\ pc = "faces"
    /\ \E decodable \in BOOLEAN :
       \E outcome \in FaceOutcomes(OriginalImage(decodable)) :
          LET r == detect_and_blur_faces(OriginalImage(decodable), outcome) IN
          /\ processed_image' = Some(r[1])
          /\ calls' = Append(calls, Call("detect_and_blur_faces", Some(OriginalImage(decodable))))
          /\ submission' = Some([Val(submission) EXCEPT !.faces_detected = r[2],
                                                        !.faces_blurred = r[3]])
    /\ pc' = "quality"
    /\ UNCHANGED <<request, db, image_store, quality_result, gps_result, exif_data,
                   exif_validation, gemini_result, verification_errors,
                   verification_result, exc, response, fn_vars>>

\* What the quality analyzer can measure on the given bytes
QualityViews(image) ==
    IF image.decodable
    THEN {DecodedImage(sz[1], sz[2], v, b) :
             sz \in ImageSizes, v \in EdgeVariances, b \in Brightnesses}
    ELSE {UndecodableImage}
         \cup {TruncatedImage(m, sz[1], sz[2]) : m \in {"L", "RGB"}, sz \in ImageSizes}

\* QualityFindings in the order too small, too blurry, too dark
QualityFindings_SmallFirst(q) ==
    (IF q.is_too_small THEN <<Finding("QUALITY_SMALL", MsgSmall)>> ELSE <<>>)
    \o (IF q.is_blurry THEN <<Finding("QUALITY_BLUR", MsgBlur)>> ELSE <<>>)
    \o (IF q.is_too_dark THEN <<Finding("QUALITY_DARK", MsgDark)>> ELSE <<>>)

\* QualityFindings without the finding of a dark image
QualityFindings_NoDark(q) ==
    (IF q.is_blurry THEN <<Finding("QUALITY_BLUR", MsgBlur)>> ELSE <<>>)
    \o (IF q.is_too_small THEN <<Finding("QUALITY_SMALL", MsgSmall)>> ELSE <<>>)

\* lines 212-228: the quality findings, in the order the route appends them
QualityFindings(q) ==
    (IF q.is_blurry THEN <<Finding("QUALITY_BLUR", MsgBlur)>> ELSE <<>>)
    \o (IF q.is_too_dark THEN <<Finding("QUALITY_DARK", MsgDark)>> ELSE <<>>)
    \o (IF q.is_too_small THEN <<Finding("QUALITY_SMALL", MsgSmall)>> ELSE <<>>)

\* lines 208-228
CheckQuality ==
    /\ pc = "quality"
    /\ \E img \in QualityViews(Val(processed_image)) :
          LET q == check_image_quality(img) IN
          /\ quality_result' = Some(q)
          /\ calls' = Append(calls, Call("check_image_quality", processed_image))
          /\ submission' = Some([Val(submission) EXCEPT !.quality_score = Some(q.score)])
          /\ verification_errors' = append_errors(verification_errors, QualityFindings(q))
    /\ pc' = "gps"
    /\ UNCHANGED <<request, db, image_store, processed_image, gps_result, exif_data,
                   exif_validation, gemini_result, verification_result, exc, response,
                   fn_vars>>

\* line 241: location_obj.accuracy or 0
AccuracyOrZero(accuracy) == IF IsSome(accuracy) /\ Val(accuracy) # 0 THEN accuracy ELSE Some(0)

\* lines 253-257
GpsFindings(g) ==
    IF ~g.verified
    THEN <<Finding(IF ContainsAway(g.reason) THEN "GPS_OUT_OF_RANGE" ELSE "GPS_INACCURATE",
                   g.reason)>>
    ELSE <<>>

\* lines 230-257
VerifyGps ==
    /\ pc = "gps"
    /\ LET req == Val(request)
           g == verify_gps_location(req.location_obj.lat,
                                    AccuracyOrZero(req.location_obj.accuracy),
                                    req.quest.position, req.quest.radius_meters)
       IN \/ \* the quest location is read and the check runs
             /\ gps_result' = Some(g)
             /\ calls' = Append(calls, Call("verify_gps_location", None))
             /\ verification_result' =
                    ("gps" :> [verified |-> g.verified,
                               distance_meters |-> g.distance_meters,
                               reason |-> g.reason]) @@ verification_result
             /\ verification_errors' = append_errors(verification_errors, GpsFindings(g))
             /\ pc' = "exif"
             /\ UNCHANGED exc
          \/ \* the query returns no row: the check is skipped
             /\ pc' = "exif"
             /\ UNCHANGED <<gps_result, verification_result, verification_errors, calls, exc>>
          \/ \* the query raises
             /\ Raise("query")
             /\ UNCHANGED <<gps_result, verification_result, verification_errors, calls>>
    /\ UNCHANGED <<request, db, submission, image_store, processed_image, quality_result,
                   exif_data, exif_validation, gemini_result, response, fn_vars>>

\* photo_processor.py lines 89-163: what the metadata of the upload holds
ExifOutcomes == {NoExifGps} \cup {ExifGps(p) : p \in ExifPositions}

\* lines 273-277
ExifFindings(v) ==
    IF ~v.matches THEN <<Finding("EXIF_MISMATCH", v.reason)>> ELSE <<>>

\* lines 259-282
ValidateExif ==
    /\ pc = "exif"
    /\ \E e \in ExifOutcomes :
          /\ exif_data' = Some(e)
          /\ calls' = Append(calls, Call("extract_exif_metadata", calls[1].image_bytes))
          /\ IF e.has_gps
             THEN LET v == validate_exif_location(e, Val(request).location_obj.lat) IN
                  /\ exif_validation' = Some(v)
                  /\ verification_result' =
                         ("exif" :> [validated |-> Some(v.matches),
                                     distance_meters |-> v.distance_meters,
                                     reason |-> v.reason]) @@ verification_result
                  /\ verification_errors' = append_errors(verification_errors, ExifFindings(v))
             ELSE /\ verification_result' =
                         ("exif" :> [validated |-> None, reason |-> <<TplExifNoGps>>])
                             @@ verification_result
                  /\ UNCHANGED <<exif_validation, verification_errors>>
    /\ pc' = "gemini"
    /\ UNCHANGED <<request, db, submission, image_store, processed_image, quality_result,
                   gps_result, gemini_result, exc, response, fn_vars>>

\* gemini_verifier.py lines 259-272: normalized results of the verifier
GeminiResult(score, authentic, screen, generated, reasoning) ==
    [content_match_score |-> score, is_authentic_photo |-> authentic,
     is_screenshot_or_screen_photo |-> screen, is_ai_generated |-> generated,
     reasoning |-> reasoning, grade |-> "B"]

GeminiResults ==
    {GeminiResult(80, TRUE, FALSE, FALSE, "ok"),
     GeminiResult(15, TRUE, FALSE, FALSE, "ok"),
     GeminiResult(14, TRUE, FALSE, FALSE, ""),
     GeminiResult(14, TRUE, FALSE, FALSE, "wrong subject"),
     GeminiResult(0, TRUE, FALSE, FALSE, ""),
     GeminiResult(80, TRUE, TRUE, FALSE, "ok"),
     GeminiResult(80, TRUE, FALSE, TRUE, "ok"),
     GeminiResult(80, FALSE, FALSE, FALSE, "ok"),
     GeminiResult(14, FALSE, TRUE, TRUE, "ok")}

\* gemini_verifier.py lines 108-297: None or a normalized result, never an exception
GeminiOutcomes == {None} \cup {Some(g) : g \in GeminiResults}

\* lines 318-321: the mismatch message, with the hint when reasoning is not empty
ContentMismatchMessage(reasoning) ==
    IF reasoning # "" THEN <<MsgContentMismatch, "Hint", reasoning>>
    ELSE <<MsgContentMismatch>>

\* GeminiFindings blocking a score equal to the minimum
GeminiFindings_ScoreAtMinimum(g) ==
    IF g.is_screenshot_or_screen_photo \/ g.is_ai_generated
    THEN <<Finding("AI_REJECT_SCREEN_OR_FAKE", MsgScreenOrFake)>>
    ELSE IF ~g.is_authentic_photo
    THEN <<Finding("AI_REJECT_INAUTHENTIC", MsgInauthentic)>>
    ELSE IF g.content_match_score <= GEMINI_CONTENT_MATCH_MIN_SCORE
    THEN <<Finding("AI_REJECT_CONTENT_MISMATCH", ContentMismatchMessage(g.reasoning))>>
    ELSE <<>>

\* lines 304-325: at most one finding of the AI result
GeminiFindings(g) ==
    IF g.is_screenshot_or_screen_photo \/ g.is_ai_generated
    THEN <<Finding("AI_REJECT_SCREEN_OR_FAKE", MsgScreenOrFake)>>
    ELSE IF ~g.is_authentic_photo
    THEN <<Finding("AI_REJECT_INAUTHENTIC", MsgInauthentic)>>
    ELSE IF g.content_match_score < GEMINI_CONTENT_MATCH_MIN_SCORE
    THEN <<Finding("AI_REJECT_CONTENT_MISMATCH", ContentMismatchMessage(g.reasoning))>>
    ELSE <<>>

\* GeminiStepFindings treating an absent result as a finding
GeminiStepFindings_NullBlocks(g) ==
    IF IsSome(g) THEN GeminiFindings(Val(g))
    ELSE <<Finding("AI_UNAVAILABLE", <<"AI verification unavailable">>)>>

\* lines 294-328: an absent result adds no finding
GeminiStepFindings(g) == IF IsSome(g) THEN GeminiFindings(Val(g)) ELSE <<>>

\* lines 284-328
VerifyGemini ==
    /\ pc = "gemini"
    /\ \E g \in GeminiOutcomes :
          /\ gemini_result' = g
          /\ calls' = Append(calls, Call("verify_with_gemini", processed_image))
          /\ IF IsSome(g)
             THEN /\ submission' = Some([Val(submission) EXCEPT
                                            !.gemini_result = g,
                                            !.content_match_score = Some(Val(g).content_match_score)])
                  /\ verification_result' = ("gemini" :> g) @@ verification_result
             ELSE /\ submission' = Some([Val(submission) EXCEPT !.gemini_result = None])
                  /\ verification_result' = ("gemini" :> None) @@ verification_result
          /\ verification_errors' = append_errors(verification_errors, GeminiStepFindings(g))
    /\ pc' = "decide"
    /\ UNCHANGED <<request, db, image_store, processed_image, quality_result, gps_result,
                   exif_data, exif_validation, exc, response, fn_vars>>

(***************************************************************************)
(* create_submission, lines 330-400: the decision, persistence, handlers   *)
(***************************************************************************)
\* lines 331-342
FullVerificationResult(vr, q, s) ==
    ("quality" :> [score |-> q.score, is_blurry |-> q.is_blurry,
                   is_too_dark |-> q.is_too_dark, is_too_small |-> q.is_too_small])
    @@ ("faces" :> [detected |-> s.faces_detected, blurred |-> s.faces_blurred])
    @@ vr

\* lines 330-350: the result is built; with findings the submission is rejected
\* and committed, without findings the run goes on to save the image
Decide ==
    /\ pc = "decide"
    /\ LET vr == FullVerificationResult(verification_result, Val(quality_result), Val(submission))
           s == [Val(submission) EXCEPT !.verification_result = Some(vr)]
           rejected == [s EXCEPT !.status = "rejected",
                                 !.rejection_reason = Some(verification_errors[1].message)]
       IN /\ verification_result' = vr
          /\ IF verification_errors # <<>>
             THEN \/ \* db.commit() succeeds
                     /\ db' = Some(rejected)
                     /\ submission' = Some(rejected)
                     /\ pc' = "rejected"
                     /\ UNCHANGED exc
                  \/ \* db.commit() raises: the transaction is rolled back
                     /\ submission' = db
                     /\ Raise("commit")
                     /\ UNCHANGED db
             ELSE /\ submission' = Some(s)
                  /\ pc' = "save"
                  /\ UNCHANGED <<db, exc>>
    /\ UNCHANGED <<request, image_store, processed_image, quality_result, gps_result,
                   exif_data, exif_validation, gemini_result, verification_errors,
                   calls, response, fn_vars>>

\* lines 351-365: refresh, then the rejection response with the first finding
RespondRejected ==
    /\ pc = "rejected"
    /\ \/ /\ response' = Some(Respond("verification_failed", 400, verification_errors[1].code))
          /\ pc' = "done"
          /\ UNCHANGED exc
       \/ \* db.refresh() raises
          /\ Raise("refresh")
          /\ UNCHANGED response
    /\ UNCHANGED <<request, db, submission, image_store, analysis, fn_vars>>

\* image_storage.py lines 26-57: the bytes are written under the submission's path
save_image(store, image_bytes) == store \cup {image_bytes}

\* lines 367-369
SaveImage ==
    /\ pc = "save"
    /\ \/ /\ image_store' = save_image(image_store, Val(processed_image))
          /\ submission' = Some([Val(submission) EXCEPT !.image_url_full = RelativePath])
          /\ pc' = "verify"
          /\ UNCHANGED exc
       \/ \* the write raises
          /\ Raise("save_image")
          /\ UNCHANGED <<image_store, submission>>
    /\ UNCHANGED <<request, db, analysis, response, fn_vars>>

\* lines 371-373
CommitVerified ==
    /\ pc = "verify"
    /\ LET s == [Val(submission) EXCEPT !.status = "verified"] IN
       \/ /\ db' = Some(s)
          /\ submission' = Some(s)
          /\ pc' = "verified"
          /\ UNCHANGED exc
       \/ \* db.commit() raises: the transaction is rolled back
          /\ submission' = db
          /\ Raise("commit")
          /\ UNCHANGED db
    /\ UNCHANGED <<request, image_store, analysis, response, fn_vars>>

\* lines 374-379: refresh and build_submission_response (lines 50-85)
RespondVerified ==
    /\ pc = "verified"
    /\ \/ /\ response' = Some(Respond("created", 201, "OK"))
          /\ pc' = "done"
          /\ UNCHANGED exc
       \/ \* db.refresh() or the location query of the response raises
          /\ Raise("response")
          /\ UNCHANGED response
    /\ UNCHANGED <<request, db, submission, image_store, analysis, fn_vars>>

\* lines 381-400: the pipeline's handler marks the submission rejected; when its
\* own commit raises, the outer handler rolls back and answers 500
HandleError ==
    /\ pc = "except"
    /\ LET s == [Val(submission) EXCEPT
                    !.status = "rejected",
                    !.rejection_reason = Some(<<TplProcessingError, Val(exc)>>)]
       IN \/ /\ db' = Some(s)
             /\ submission' = Some(s)
             /\ response' = Some(Respond("processing_failed", 500, Val(exc)))
          \/ /\ submission' = db
             /\ response' = Some(Respond("create_failed", 500, "commit"))
             /\ UNCHANGED db
    /\ pc' = "done"
    /\ UNCHANGED <<request, image_store, analysis, exc, fn_vars>>

\* lines 403-472: get_submission reads the committed row
GetSubmission ==
    /\ pc = "done"
    /\ IsSome(db)
    /\ viewed' = Some(Respond("read", 200, Val(db).status))
    /\ UNCHANGED <<pc, request, db, submission, image_store, analysis, exc, response,
                   fn_args, fn_result, gem_vars, other_vars>>

Next ==
    \/ RejectRequest
    \/ CreateRecord
    \/ BlurFaces
    \/ CheckQuality
    \/ VerifyGps
    \/ ValidateExif
    \/ VerifyGemini
    \/ Decide
    \/ RespondRejected
    \/ SaveImage
    \/ CommitVerified
    \/ RespondVerified
    \/ HandleError
    \/ GetSubmission

Spec == Init /\ [][Next]_vars

(***************************************************************************)
(* Direct calls of verify_gps_location                                     *)
(***************************************************************************)
GpsArgs ==
    [explorer : GpsArgPositions, explorer_accuracy : GpsArgAccuracies,
     quest : GpsArgPositions, quest_radius : GpsArgRadii]

InitGps ==
    /\ InitPipeline
    /\ fn_args \in {Some(a) : a \in GpsArgs}
    /\ fn_result = None
    /\ InitVerifierIdle

CallVerifyGps ==
    /\ IsSome(fn_args)
    /\ fn_result = None
    /\ LET a == Val(fn_args) IN
       fn_result' = Some(verify_gps_location(a.explorer, a.explorer_accuracy,
                                             a.quest, a.quest_radius))
    /\ UNCHANGED <<pc, request, db, submission, image_store, analysis, exc, response,
                   viewed, fn_args, gem_vars, other_vars>>

SpecGps == InitGps /\ [][CallVerifyGps]_vars

(***************************************************************************)
(* Vocabulary of the claims: the blocking findings as the analyzers'       *)
(* outputs determine them, group by group                                  *)
(***************************************************************************)
Finished == pc = "done" /\ IsSome(response)
\* the request returned from inside the try block, no exception was raised
Completed == Finished /\ Val(response).kind \in {"created", "verification_failed"}
Row == Val(db)
Codes == {verification_errors[i].code : i \in DOMAIN verification_errors}

QualityBlocking ==
    IF IsSome(quality_result)
    THEN LET q == Val(quality_result) IN
         (IF q.is_too_small THEN {Finding("QUALITY_SMALL", MsgSmall)} ELSE {})
         \cup (IF q.is_blurry THEN {Finding("QUALITY_BLUR", MsgBlur)} ELSE {})
         \cup (IF q.is_too_dark THEN {Finding("QUALITY_DARK", MsgDark)} ELSE {})
    ELSE {}
GpsBlocking ==
    IF IsSome(gps_result) /\ ~Val(gps_result).verified
    THEN {Finding(IF Val(gps_result).reason[1] = TplLowAccuracy
                  THEN "GPS_INACCURATE" ELSE "GPS_OUT_OF_RANGE", Val(gps_result).reason)}
    ELSE {}
ExifBlocking ==
    IF IsSome(exif_validation) /\ ~Val(exif_validation).matches
    THEN {Finding("EXIF_MISMATCH", Val(exif_validation).reason)}
    ELSE {}
AiBlocking ==
    IF IsSome(gemini_result)
    THEN LET g == Val(gemini_result) IN
         IF g.is_screenshot_or_screen_photo \/ g.is_ai_generated
         THEN {Finding("AI_REJECT_SCREEN_OR_FAKE", MsgScreenOrFake)}
         ELSE IF ~g.is_authentic_photo
         THEN {Finding("AI_REJECT_INAUTHENTIC", MsgInauthentic)}
         ELSE IF g.content_match_score < GEMINI_CONTENT_MATCH_MIN_SCORE
         THEN {Finding("AI_REJECT_CONTENT_MISMATCH",
                       IF g.reasoning = "" THEN <<MsgContentMismatch>>
                       ELSE <<MsgContentMismatch, "Hint", g.reasoning>>)}
         ELSE {}
    ELSE {}
AllBlocking == QualityBlocking \cup GpsBlocking \cup ExifBlocking \cup AiBlocking
TopGroupBlocking ==
    IF QualityBlocking # {} THEN QualityBlocking
    ELSE IF GpsBlocking # {} THEN GpsBlocking
    ELSE IF ExifBlocking # {} THEN ExifBlocking
    ELSE AiBlocking

(***************************************************************************)
(* C1: every run of create_submission that completes without an exception  *)
(* ends verified if and only if no analyzer (quality, GPS, EXIF, AI)       *)
(* produced a blocking finding; otherwise it ends rejected and             *)
(* rejection_reason is the message of the first blocking finding.          *)
(***************************************************************************)
C1_VerifiedIffNoBlockingFinding ==
    Completed =>
        /\ (Row.status = "verified") <=> (AllBlocking = {})
        /\ AllBlocking # {} =>
              /\ Row.status = "rejected"
              /\ verification_errors # <<>>
              /\ Row.rejection_reason = Some(verification_errors[1].message)
              /\ verification_errors[1] \in AllBlocking
        /\ AllBlocking = {} => Row.rejection_reason = None

C1_Witness ==
    /\ Completed
    /\ AllBlocking = {}
    /\ Row.status = "verified"
    /\ IsSome(gemini_result)

(***************************************************************************)
(* C2: save_image is only ever handed the output of a face-redaction pass  *)
(* that completed successfully, never the unredacted upload.               *)
(***************************************************************************)
C2_StoredImagesAreRedacted ==
    \A img \in image_store : img.redacted

(***************************************************************************)
(* C3: the status starts at processing and changes at most once; once      *)
(* verified or rejected is committed, no later step changes the row's      *)
(* status, rejection_reason or verification_result.                        *)
(***************************************************************************)
C3_TerminalStatusIsFinal ==
    [][ /\ (db = None /\ db' # None) => db'[1].status = "processing"
        /\ (db # None /\ db[1].status \in {"verified", "rejected"}) =>
              /\ db' # None
              /\ db'[1].status = db[1].status
              /\ db'[1].rejection_reason = db[1].rejection_reason
              /\ db'[1].verification_result = db[1].verification_result ]_vars

(***************************************************************************)
(* C4: with blocking findings from several analyzer groups, the            *)
(* rejection_reason and the error code returned are those of one finding   *)
(* of the highest-precedence group, in the order quality, GPS, EXIF, AI.   *)
(***************************************************************************)
C4_ReasonFromHighestPrecedenceGroup ==
    (Completed /\ AllBlocking # {}) =>
        /\ Val(response).kind = "verification_failed"
        /\ \E f \in TopGroupBlocking :
              /\ Row.rejection_reason = Some(f.message)
              /\ Val(response).code = f.code
        /\ (QualityBlocking = {} /\ IsSome(gps_result)
                /\ Val(request).location_obj.accuracy \in {Some(a) : a \in AccuracyLimit..200}) =>
              /\ Val(Row.rejection_reason)[1] = TplLowAccuracy
              /\ Val(response).code = "GPS_INACCURATE"

C4_Witness ==
    /\ Completed
    /\ QualityBlocking # {}
    /\ GpsBlocking # {}
    /\ AiBlocking # {}
    /\ Row.status = "rejected"

(***************************************************************************)
(* C5 as claimed: among quality findings the precedence is too small, then *)
(* too blurry, then too dark.                                              *)
(***************************************************************************)
C5_SmallThenBlurryThenDark ==
    (Completed /\ IsSome(quality_result)) =>
        LET q == Val(quality_result) IN
        /\ (q.is_too_small /\ (q.is_blurry \/ q.is_too_dark)) =>
              Row.rejection_reason = Some(MsgSmall)
        /\ (q.is_blurry /\ q.is_too_dark /\ ~q.is_too_small) =>
              Row.rejection_reason = Some(MsgBlur)

(***************************************************************************)
(* C5 as amended: among quality findings the precedence is too blurry,     *)
(* then too dark, then too small: a blurry image is rejected with the      *)
(* too-blurry message whatever else holds of it, a dark image that is not  *)
(* blurry with the too-dark message, and only an image that is neither     *)
(* with the too-small message.                                             *)
(***************************************************************************)
C5_BlurryThenDarkThenSmall ==
    (Completed /\ IsSome(quality_result)) =>
        LET q == Val(quality_result) IN
        /\ q.is_blurry => Row.rejection_reason = Some(MsgBlur)
        /\ (q.is_too_dark /\ ~q.is_blurry) => Row.rejection_reason = Some(MsgDark)
        /\ (q.is_too_small /\ ~q.is_blurry /\ ~q.is_too_dark) =>
              Row.rejection_reason = Some(MsgSmall)

C5_Witness ==
    /\ Completed
    /\ IsSome(quality_result)
    /\ Val(quality_result).is_too_small
    /\ Val(quality_result).is_blurry
    /\ Val(quality_result).is_too_dark
    /\ Row.rejection_reason = Some(MsgBlur)

(***************************************************************************)
(* C6: when verify_with_gemini returns null no AI finding is added and the *)
(* final status is what the quality, GPS and EXIF findings alone           *)
(* determine; with none of them the submission is verified.                *)
(***************************************************************************)
AiCodes == {"AI_REJECT_SCREEN_OR_FAKE", "AI_REJECT_INAUTHENTIC", "AI_REJECT_CONTENT_MISMATCH"}
GeminiReturnedNull == "gemini" \in DOMAIN verification_result /\ gemini_result = None

C6_AbsentAiResultNeverBlocks ==
    GeminiReturnedNull =>
        /\ verification_result["gemini"] = None
        /\ \A i \in DOMAIN verification_errors :
              verification_errors[i] \in QualityBlocking \cup GpsBlocking \cup ExifBlocking
        /\ Completed =>
              IF QualityBlocking \cup GpsBlocking \cup ExifBlocking = {}
              THEN Row.status = "verified" /\ Row.rejection_reason = None
              ELSE Row.status = "rejected"

C6_Witness ==
    /\ Completed
    /\ GeminiReturnedNull
    /\ Row.status = "verified"

(***************************************************************************)
(* C7: if a step of the pipeline raises after the record was created, the  *)
(* submission ends rejected with a processing-error reason; it is never    *)
(* left in processing and never ends verified.                             *)
(***************************************************************************)
C7_ExceptionEndsRejected ==
    (Finished /\ IsSome(exc)) =>
        /\ IsSome(db)
        /\ Row.status = "rejected"
        /\ IsSome(Row.rejection_reason)
        /\ Val(Row.rejection_reason)[1] = TplProcessingError

(***************************************************************************)
(* C8: save_image is called only after every analyzer ran without a        *)
(* blocking finding, and no submission that ends rejected has an image in  *)
(* storage or a non-empty image_url_full.                                  *)
(***************************************************************************)
C8_NoImageForRejected ==
    /\ image_store # {} => ("gemini" \in DOMAIN verification_result /\ AllBlocking = {})
    /\ (Finished /\ IsSome(db) /\ Row.status = "rejected") =>
          (image_store = {} /\ Row.image_url_full = "")

(***************************************************************************)
(* C9: verify_gps_location returns verified exactly when the accuracy is   *)
(* absent or below 100 and the distance is at most the radius; accuracy    *)
(* of 100 or more is rejected for low accuracy whatever the distance, a    *)
(* distance equal to the radius is verified, and the computed distance is  *)
(* in the result in all three outcomes.                                    *)
(***************************************************************************)
C9_GpsPolicy ==
    (IsSome(fn_args) /\ IsSome(fn_result)) =>
        LET a == Val(fn_args)
            r == Val(fn_result)
            d == IF a.explorer >= a.quest THEN a.explorer - a.quest ELSE a.quest - a.explorer
            accurate == a.explorer_accuracy = None \/ Val(a.explorer_accuracy) < 100
        IN /\ r.verified <=> (accurate /\ d <= a.quest_radius)
           /\ ~accurate => r.reason[1] = TplLowAccuracy
           /\ (accurate /\ d > a.quest_radius) => r.reason[1] = TplOutOfRange
           /\ (accurate /\ d = a.quest_radius) => r.verified
           /\ r.distance_meters = d

C9_Witness ==
    /\ IsSome(fn_args)
    /\ IsSome(fn_result)
    /\ Val(fn_args).explorer_accuracy = Some(100)
    /\ Val(fn_args).explorer = Val(fn_args).quest
    /\ ~Val(fn_result).verified
    /\ Val(fn_result).distance_meters = 0

(***************************************************************************)
(* C10: the EXIF check blocks a submission exactly when the image carries  *)
(* GPS coordinates farther than the tolerance of 50 m from the claimed     *)
(* location; without embedded GPS validate_exif_location matches, the      *)
(* pipeline records validated = null and adds no finding.                  *)
(***************************************************************************)
C10_ExifBlocksIffBeyondTolerance ==
    /\ \A p \in Positions \cup ExifPositions :
          /\ validate_exif_location(NoExifGps, p).matches
          /\ validate_exif_location(NoExifGps, p).reason = <<TplExifNoGps>>
    /\ IsSome(exif_data) =>
          LET e == Val(exif_data)
              lat == Val(request).location_obj.lat
          IN IF ~e.has_gps
             THEN /\ verification_result["exif"].validated = None
                  /\ "EXIF_MISMATCH" \notin Codes
             ELSE LET d == IF Val(e.gps) >= lat THEN Val(e.gps) - lat ELSE lat - Val(e.gps) IN
                  /\ Val(exif_validation).matches <=> (d <= 50)
                  /\ verification_result["exif"].validated = Some(d <= 50)
                  /\ ("EXIF_MISMATCH" \in Codes) <=> (d > 50)
    /\ (Completed /\ "EXIF_MISMATCH" \in Codes) => Row.status = "rejected"

C10_Witness ==
    /\ Completed
    /\ IsSome(exif_data)
    /\ Val(exif_data).has_gps
    /\ Codes = {"EXIF_MISMATCH"}
    /\ Val(response).code = "EXIF_MISMATCH"
    /\ Row.status = "rejected"

(***************************************************************************)
(* C11: a non-null AI result yields at most one blocking finding: the      *)
(* screenshot/AI-generated finding if is_screenshot_or_screen_photo or     *)
(* is_ai_generated; otherwise the not-authentic finding if                 *)
(* is_authentic_photo is false; otherwise the content-mismatch finding     *)
(* exactly when content_match_score is below the minimum of 15 (a score    *)
(* equal to the minimum does not block).                                   *)
(***************************************************************************)
AiFindingCodes ==
    {verification_errors[i].code :
        i \in {j \in DOMAIN verification_errors : verification_errors[j].code \in AiCodes}}
AiFindingCount ==
    Cardinality({j \in DOMAIN verification_errors : verification_errors[j].code \in AiCodes})

C11_AtMostOneAiFinding ==
    ("gemini" \in DOMAIN verification_result /\ IsSome(gemini_result)) =>
        LET g == Val(gemini_result)
            fake == g.is_screenshot_or_screen_photo \/ g.is_ai_generated
        IN /\ AiFindingCount <= 1
           /\ fake => AiFindingCodes = {"AI_REJECT_SCREEN_OR_FAKE"}
           /\ (~fake /\ ~g.is_authentic_photo) => AiFindingCodes = {"AI_REJECT_INAUTHENTIC"}
           /\ (~fake /\ g.is_authentic_photo /\ g.content_match_score < 15) =>
                 AiFindingCodes = {"AI_REJECT_CONTENT_MISMATCH"}
           /\ (~fake /\ g.is_authentic_photo /\ g.content_match_score >= 15) =>
                 AiFindingCodes = {}

C11_Witness ==
    /\ "gemini" \in DOMAIN verification_result
    /\ IsSome(gemini_result)
    /\ Val(gemini_result).is_screenshot_or_screen_photo
    /\ ~Val(gemini_result).is_authentic_photo
    /\ Val(gemini_result).content_match_score < 15
    /\ AiFindingCodes = {"AI_REJECT_SCREEN_OR_FAKE"}
    /\ AiFindingCount = 1

(***************************************************************************)
(* gemini_verifier.py: values of the parsed AI response.  A JSON value is  *)
(* a tagged tuple; a key the object does not hold is Missing.              *)
(***************************************************************************)
Missing == <<"missing">>
Null == <<"null">>
JInt(n) == <<"int", n>>
JFloat(tenths) == <<"float", tenths>>
JStr(s) == <<"str", s>>
JBool(b) == <<"bool", b>>
JList(xs) == <<"list", xs>>

\* data.get(key) is None
GetIsNone(x) == x[1] \in {"missing", "null"}

\* the truth value Python gives to data.get(key)
Truthy(x) ==
    CASE x[1] \in {"missing", "null"} -> FALSE
      [] x[1] \in {"int", "float"} -> x[2] # 0
      [] x[1] = "str" -> x[2] # ""
      [] x[1] = "bool" -> x[2]
      [] x[1] = "list" -> x[2] # <<>>

\* bool(data.get(key, default))
BoolWithDefault(x, default) == IF x = Missing THEN default ELSE Truthy(x)

\* the strings int() accepts, with their values
NumericStrings == ("80" :> 80) @@ (" 7 " :> 7) @@ ("-3" :> (0 - 3))

\* int(x) raises ValueError or TypeError
IntRaises(x) ==
    \/ x[1] \in {"list", "null", "missing"}
    \/ x[1] = "str" /\ x[2] \notin DOMAIN NumericStrings

\* int(x): floats (held in tenths) are truncated towards zero
IntOf(x) ==
    CASE x[1] = "int" -> x[2]
      [] x[1] = "bool" -> IF x[2] THEN 1 ELSE 0
      [] x[1] = "float" -> IF x[2] >= 0 THEN x[2] \div 10 ELSE 0 - ((0 - x[2]) \div 10)
      [] x[1] = "str" -> NumericStrings[x[2]]

\* str(x) of a value whose truth value is true
StrOf(x) ==
    CASE x[1] = "str" -> x[2]
      [] x[1] = "int" -> ToString(x[2])
      [] x[1] = "bool" -> "True"
      [] x[1] = "list" -> "[...]"
      [] x[1] = "float" -> ToString(x[2] \div 10) \o "." \o ToString(x[2] % 10)

\* s.strip().upper() of the strings used as grades
StripUpper(s) ==
    LET table == ("b" :> "B") @@ (" d " :> "D") @@ ("z" :> "Z") @@ ("True" :> "TRUE")
                 @@ ("a+" :> "A+") @@ ("  " :> "")
    IN IF s \in DOMAIN table THEN table[s] ELSE s

\* line 259 with the clamp left out
ClampScore_Unclamped(score) == score

\* line 272: max(0, min(100, score))
ClampScore(score) == Max(0, Min(100, score))

\* lines 264 and 269-270: the grade, "C" when absent, empty or not a valid letter
NormalizeGrade(x) ==
    LET g == IF Truthy(x) THEN StripUpper(StrOf(x)) ELSE "C"
    IN IF g \in {"A", "B", "C", "D", "F"} THEN g ELSE "C"

\* a parsed JSON object: a record over the keys lines 259-266 read and "other",
\* which stands for any key they do not read
JDict(fields) == <<"dict", fields>>
IsDict(data) == data[1] = "dict"

\* line 255: "not data" of a parsed response
DataIsFalsy(data) ==
    IF IsDict(data) THEN \A k \in DOMAIN data[2] : data[2][k] = Missing ELSE ~Truthy(data)

\* lines 259-272 raise: data has no get (not a dict), or int() rejects the score
NormalizeRaises(data) ==
    \/ ~IsDict(data)
    \/ /\ ~GetIsNone(data[2].content_match_score)
       /\ IntRaises(data[2].content_match_score)

\* lines 259-272: the normalized result of a dict
NormalizedResult(data) ==
    LET d == data[2] IN
    [content_match_score |->
        ClampScore(IF GetIsNone(d.content_match_score) THEN 0
                   ELSE IntOf(d.content_match_score)),
     is_authentic_photo |-> BoolWithDefault(d.is_authentic_photo, TRUE),
     is_screenshot_or_screen_photo |->
        BoolWithDefault(d.is_screenshot_or_screen_photo, FALSE),
     is_ai_generated |-> BoolWithDefault(d.is_ai_generated, FALSE),
     grade |-> NormalizeGrade(d.grade),
     reasoning |-> IF d.reasoning = Missing THEN "" ELSE
                   IF d.reasoning = Null THEN "None" ELSE StrOf(d.reasoning),
     flags |-> IF d.flags[1] = "list" THEN d.flags[2] ELSE <<>>]

\* lines 254-297 from the parsed response on: None when it is empty or when the
\* normalization raises (caught at line 288), the normalized result otherwise
normalize_response(data) ==
    IF DataIsFalsy(data) \/ NormalizeRaises(data) THEN None
    ELSE Some(NormalizedResult(data))

(***************************************************************************)
(* Direct calls of the normalization of verify_with_gemini                 *)
(***************************************************************************)
Dict(score, authentic, screen, generated, grade, reasoning, flags, other) ==
    JDict([content_match_score |-> score, is_authentic_photo |-> authentic,
     is_screenshot_or_screen_photo |-> screen, is_ai_generated |-> generated,
     grade |-> grade, reasoning |-> reasoning, flags |-> flags, other |-> other])

\* what _parse_gemini_json can hand to line 255: objects, and other JSON values
RawData ==
    {Dict(sc, a, a2, Missing, g, JStr("ok"), f, Missing) :
        sc \in {Missing, Null, JInt(0 - 5), JInt(0), JInt(70), JInt(100), JInt(150),
                JFloat(705), JFloat(0 - 55), JStr("80"), JStr("abc"), JBool(TRUE),
                JList(<<70>>)},
        a \in {Missing, Null, JBool(TRUE), JBool(FALSE), JStr("false")},
        a2 \in {Missing, JBool(TRUE)},
        g \in {Missing, Null, JStr("A"), JStr("b"), JStr(" d "), JStr("z"), JStr("a+"),
               JStr(""), JStr("  "), JInt(5), JBool(TRUE)},
        f \in {Missing, Null, JList(<<>>), JList(<<"unclear subject">>), JStr("none")}}
    \cup {Dict(Missing, Missing, Missing, g, Missing, Missing, Missing, o) :
            g \in {Missing, Null, JBool(TRUE), JBool(FALSE)}, o \in {Missing, JInt(1)}}
    \cup {JList(<<>>), JList(<<1>>), JInt(0), JInt(7), JStr("ok"), JBool(TRUE)}

InitNormalize ==
    /\ InitPipeline
    /\ fn_args \in {Some(d) : d \in RawData}
    /\ fn_result = None
    /\ InitVerifierIdle

CallNormalize ==
    /\ IsSome(fn_args)
    /\ fn_result = None
    /\ fn_result' = Some(normalize_response(Val(fn_args)))
    /\ UNCHANGED <<pc, request, db, submission, image_store, analysis, exc, response,
                   viewed, fn_args, gem_vars, other_vars>>

SpecNormalize == InitNormalize /\ [][CallNormalize]_vars

(***************************************************************************)
(* C15: every non-null result of verify_with_gemini is normalized:         *)
(* content_match_score is an integer in 0..100 (150 becomes 100, a         *)
(* negative score becomes 0), grade is one of A, B, C, D, F (an absent or  *)
(* invalid grade becomes C), is_authentic_photo is true when the field is  *)
(* missing, is_screenshot_or_screen_photo and is_ai_generated are false    *)
(* when missing, and flags is a list, empty when the field is missing or   *)
(* not a list.                                                             *)
(***************************************************************************)
C15_ResultIsNormalized ==
    (IsSome(fn_result) /\ IsSome(Val(fn_result))) =>
        LET d == Val(fn_args)[2]
            r == Val(Val(fn_result))
        IN /\ r.content_match_score \in 0..100
           /\ d.content_match_score = JInt(150) => r.content_match_score = 100
           /\ (d.content_match_score[1] = "int" /\ d.content_match_score[2] < 0) =>
                 r.content_match_score = 0
           /\ r.grade \in {"A", "B", "C", "D", "F"}
           /\ d.grade \in {Missing, Null, JStr("z"), JStr("a+"), JStr("")} => r.grade = "C"
           /\ d.is_authentic_photo = Missing => r.is_authentic_photo = TRUE
           /\ d.is_screenshot_or_screen_photo = Missing =>
                 r.is_screenshot_or_screen_photo = FALSE
           /\ d.is_ai_generated = Missing => r.is_ai_generated = FALSE
           /\ r.flags \in Seq({"unclear subject"})
           /\ d.flags[1] # "list" => r.flags = <<>>

C15_Witness ==
    /\ IsSome(fn_result)
    /\ IsSome(Val(fn_result))
    /\ Val(fn_args)[2].content_match_score = JInt(150)
    /\ Val(fn_args)[2].grade = JStr("z")
    /\ Val(fn_args)[2].is_authentic_photo = Missing
    /\ Val(fn_args)[2].flags = JStr("none")
    /\ Val(Val(fn_result)).content_match_score = 100
    /\ Val(Val(fn_result)).grade = "C"

(***************************************************************************)
(* gemini_verifier.py, verify_with_gemini: one call, step by step          *)
(***************************************************************************)
GEMINI_RETRY_ATTEMPTS == 5
GEMINI_RETRY_INITIAL_DELAY == 1
GEMINI_RETRY_MAX_DELAY == 60

\* an exception: the name of its type, its HTTP status (0: none) and the marker
\* words its message holds
Exception(type_name, code, words) == [type_name |-> type_name, code |-> code, words |-> words]

\* google.genai.errors.APIError: the message starts with the status code
ApiError(code) ==
    Exception(IF code >= 500 THEN "ServerError" ELSE "ClientError", code,
              IF code = 429 THEN {"429"} ELSE {})

\* what one HTTP request of generate_content can fail with
CallErrors ==
    {ApiError(429), ApiError(400), ApiError(408), ApiError(500), ApiError(503),
     Exception("ReadTimeout", 0, {})}

\* lines 42-52
_is_rate_limit_error(e) ==
    \/ e.type_name = "ResourceExhausted"
    \/ e.words \cap {"429", "quota", "rate limit", "resource has been exhausted"} # {}

\* lines 138-151: the retry options handed to the client
HttpRetryOptions ==
    [attempts |-> GEMINI_RETRY_ATTEMPTS, initial_delay |-> GEMINI_RETRY_INITIAL_DELAY,
     max_delay |-> GEMINI_RETRY_MAX_DELAY, exp_base |-> 2,
     http_status_codes |-> {408, 429, 500, 502, 503, 504}]

\* the client repeats a request itself: it has retry options, the error is an
\* APIError with one of their status codes, and attempts are left
ClientRetries(options, e, sent) ==
    /\ IsSome(options)
    /\ e.type_name \in {"ClientError", "ServerError"}
    /\ e.code \in Val(options).http_status_codes
    /\ sent < Val(options).attempts

\* line 288 catching rate-limit errors only
CaughtByHandler_RateLimitOnly(e) == _is_rate_limit_error(e)

\* line 288: "except Exception" catches every error a step of the try block raises
CaughtByHandler(e) ==
    e.type_name \in {"ImportError", "ClientError", "ServerError", "ReadTimeout",
                     "ResourceExhausted", "AttributeError", "ValueError"}

\* lines 230-233: the delay before the next turn of the loop
RetryDelay(k) == Min(GEMINI_RETRY_MAX_DELAY, GEMINI_RETRY_INITIAL_DELAY * (2 ^ k))

\* the parsed responses one call is followed through
ResponseData ==
    {Dict(JInt(150), Missing, Missing, Missing, JStr("b"), JStr("ok"), Missing, Missing),
     Dict(JInt(70), JBool(FALSE), JBool(TRUE), Missing, JStr("z"), Missing, JList(<<>>), Missing),
     Dict(JStr("abc"), Missing, Missing, Missing, Missing, Missing, Missing, Missing),
     Dict(Missing, Missing, Missing, Missing, Missing, Missing, Missing, Missing),
     JList(<<1>>)}

InitGemini ==
    /\ InitPipeline
    /\ fn_args = None
    /\ fn_result = None
    /\ gem_pc = "entry"
    /\ api_key \in BOOLEAN
    /\ http_options = None
    /\ attempt = 0
    /\ tries = 0
    /\ http_attempts = 0
    /\ error = None
    /\ sleeps = <<>>
    /\ gem_result = None
    /\ InitOthersIdle

pipeline_vars == <<pc, request, db, submission, image_store, analysis, exc, response,
                   viewed, fn_args, fn_result, other_vars>>

GemReturn(value) ==
    /\ gem_pc' = "returned"
    /\ gem_result' = value

GemRaise(e) ==
    /\ gem_pc' = "except"
    /\ error' = Some(e)
    /\ gem_result' = gem_result

\* lines 128-130
GemEntry ==
    /\ gem_pc = "entry"
    /\ \/ /\ ~api_key
          /\ GemReturn(None)
       \/ /\ api_key
          /\ gem_pc' = "setup"
          /\ gem_result' = gem_result
    /\ UNCHANGED <<pipeline_vars, api_key, http_options, attempt, tries, http_attempts,
                   error, sleeps>>

\* lines 132-215: the imports, the client and the request
GemSetup ==
    /\ gem_pc = "setup"
    /\ \/ /\ GemRaise(Exception("ImportError", 0, {}))
          /\ UNCHANGED http_options
       \/ /\ http_options' \in {None, Some(HttpRetryOptions)}
          /\ gem_pc' = "call"
          /\ UNCHANGED <<error, gem_result>>
    /\ UNCHANGED <<pipeline_vars, api_key, attempt, tries, http_attempts, sleeps>>

\* lines 218-222: one HTTP request of client.models.generate_content
GemHttpAttempt ==
    /\ gem_pc = "call"
    /\ http_attempts' = http_attempts + 1
    /\ tries' = tries + 1
    /\ \/ /\ gem_pc' = "response"
          /\ error' = None
       \/ \E e \in CallErrors :
            /\ error' = Some(e)
            /\ gem_pc' = IF ClientRetries(http_options, e, tries + 1) THEN "call"
                         ELSE "caught"
    /\ UNCHANGED <<pipeline_vars, api_key, http_options, attempt, sleeps, gem_result>>

\* lines 225-244: the except clause of the retry loop
GemCaught ==
    /\ gem_pc = "caught"
    /\ IF ~_is_rate_limit_error(Val(error)) \/ attempt >= GEMINI_RETRY_ATTEMPTS - 1
       THEN /\ gem_pc' = "except"
            /\ UNCHANGED <<attempt, tries, sleeps>>
       ELSE /\ sleeps' = Append(sleeps, RetryDelay(attempt))
            /\ attempt' = attempt + 1
            /\ tries' = 0
            /\ gem_pc' = "call"
    /\ UNCHANGED <<pipeline_vars, api_key, http_options, http_attempts, error, gem_result>>

\* lines 249-286: the response text, its parsing and the normalization
GemResponse ==
    /\ gem_pc = "response"
    /\ \/ GemReturn(None) /\ UNCHANGED error
       \/ \E data \in ResponseData :
            IF DataIsFalsy(data) THEN GemReturn(None) /\ UNCHANGED error
            ELSE IF NormalizeRaises(data)
            THEN GemRaise(Exception(IF IsDict(data) THEN "ValueError" ELSE "AttributeError",
                                    0, {}))
            ELSE GemReturn(Some(NormalizedResult(data))) /\ UNCHANGED error
    /\ UNCHANGED <<pipeline_vars, api_key, http_options, attempt, tries, http_attempts,
                   sleeps>>

\* lines 288-297: the handler of the try block; an exception it does not catch
\* reaches the caller
GemExcept ==
    /\ gem_pc = "except"
    /\ IF CaughtByHandler(Val(error)) THEN GemReturn(None)
       ELSE gem_pc' = "propagated" /\ UNCHANGED gem_result
    /\ UNCHANGED <<pipeline_vars, api_key, http_options, attempt, tries, http_attempts,
                   error, sleeps>>

NextGemini ==
    \/ GemEntry
    \/ GemSetup
    \/ GemHttpAttempt
    \/ GemCaught
    \/ GemResponse
    \/ GemExcept

SpecGemini == InitGemini /\ [][NextGemini]_vars

(***************************************************************************)
(* C12: verify_with_gemini never propagates an exception to its caller:    *)
(* whatever the external call does (import failure, timeout, rate limit    *)
(* exhausted after retries, non-retryable error, empty or unparseable      *)
(* response, wrongly typed fields) it returns null or a normalized result; *)
(* with no credentials it returns null without any call to the service.    *)
(***************************************************************************)
C12_NeverPropagates ==
    /\ gem_pc # "propagated"
    /\ gem_pc = "returned" =>
          \/ gem_result = None
          \/ /\ Val(gem_result).content_match_score \in 0..100
             /\ Val(gem_result).grade \in {"A", "B", "C", "D", "F"}
             /\ Val(gem_result).is_authentic_photo \in BOOLEAN
    /\ ~api_key => http_attempts = 0 /\ gem_pc \in {"entry", "returned"} /\ gem_result = None

C12_Witness ==
    /\ gem_pc = "returned"
    /\ api_key
    /\ IsSome(error)
    /\ _is_rate_limit_error(Val(error))
    /\ attempt = 4
    /\ gem_result = None

(***************************************************************************)
(* C13: a failed AI call is retried if and only if the error is a          *)
(* rate-limit error or a server (5xx) error and fewer than 5 attempts have *)
(* been made; any other error is not retried and ends the verification     *)
(* with a null result.                                                     *)
(***************************************************************************)
RateLimitOrServerError(e) == _is_rate_limit_error(e) \/ e.code \in 500..599

C13_RetriedIffRateLimitOrServerError ==
    /\ (gem_pc = "call" /\ IsSome(error)) =>
          RateLimitOrServerError(Val(error)) /\ http_attempts < 5
    /\ (gem_pc \in {"except", "returned"} /\ IsSome(error) /\ Val(error) \in CallErrors) =>
          ~(RateLimitOrServerError(Val(error)) /\ http_attempts < 5)
    /\ (gem_pc = "returned" /\ IsSome(error) /\ Val(error) \in CallErrors) =>
          gem_result = None

(***************************************************************************)
(* C14: the AI retry loop always terminates: at most 5 attempts are made   *)
(* against the external service per call of the verifier, the wait after   *)
(* the k-th consecutive retryable failure (k = 0..3) is min(60, 2^k)       *)
(* seconds, no wait follows the last attempt, and after the 5th failure    *)
(* the verifier returns null.                                              *)
(***************************************************************************)
C14_AtMostFiveAttemptsWithBackoff ==
    /\ http_attempts <= 5
    /\ Len(sleeps) <= 4
    /\ \A k \in DOMAIN sleeps : sleeps[k] = Min(60, 2 ^ (k - 1))
    /\ gem_pc = "returned" => (Len(sleeps) < http_attempts \/ http_attempts = 0)
    /\ (gem_pc = "returned" /\ IsSome(error) /\ http_attempts = 5) => gem_result = None

(***************************************************************************)
(* gemini_verifier.py, _parse_gemini_json and _repair_truncated_json.      *)
(* A text is the sequence of its structural tokens: braces, brackets, a    *)
(* string literal whose content holds an open brace, and the markdown      *)
(* fences.  Keys, commas and scalars are left out: they are well formed in *)
(* every text considered.                                                  *)
(***************************************************************************)
MaxTextLen == 5

StrWithBrace == "'{'"
FenceJson == "<fence json>"
Fence == "<fence>"

RECURSIVE SeqsUpTo(_, _)
SeqsUpTo(S, n) ==
    IF n = 0 THEN {<<>>}
    ELSE LET shorter == SeqsUpTo(S, n - 1)
         IN shorter \cup {Append(t, x) : t \in {u \in shorter : Len(u) = n - 1}, x \in S}

Texts == SeqsUpTo({"{", "}", "[", "]", StrWithBrace, FenceJson, Fence}, MaxTextLen)

\* json.loads reading one token: the open containers, whether the top-level value is
\* complete, and whether the text is still well formed
ScanStep(st, tok) ==
    IF ~st.ok \/ st.done \/ tok \in {Fence, FenceJson} THEN [st EXCEPT !.ok = FALSE]
    ELSE IF tok \in {"{", "["} THEN [st EXCEPT !.stack = Append(st.stack, tok)]
    ELSE IF tok = StrWithBrace
    THEN [st EXCEPT !.done = (st.stack = <<>>)]
    ELSE IF st.stack # <<>> /\ st.stack[Len(st.stack)] = (IF tok = "}" THEN "{" ELSE "[")
    THEN [st EXCEPT !.stack = SubSeq(st.stack, 1, Len(st.stack) - 1),
                    !.done = (Len(st.stack) = 1)]
    ELSE [st EXCEPT !.ok = FALSE]

RECURSIVE ScanFrom(_, _, _)
ScanFrom(text, i, st) ==
    IF i > Len(text) THEN st ELSE ScanFrom(text, i + 1, ScanStep(st, text[i]))

Scan(text) == ScanFrom(text, 1, [ok |-> TRUE, done |-> FALSE, stack |-> <<>>])

\* line 73: json.loads(text) returns instead of raising JSONDecodeError
JsonLoads(text) == Scan(text).ok /\ Scan(text).done

\* str.count: a brace inside a string literal is counted as well
Count(text, ch) ==
    Cardinality({i \in DOMAIN text :
                    text[i] = ch \/ (ch = "{" /\ text[i] = StrWithBrace)})

\* "]" * n, the empty string when n is not positive
Repeat(ch, n) == IF n <= 0 THEN <<>> ELSE [i \in 1..n |-> ch]

\* lines 86-94 appending the braces before the brackets
_repair_truncated_json_BracesFirst(text) ==
    LET open_braces == Count(text, "{") - Count(text, "}")
        open_brackets == Count(text, "[") - Count(text, "]")
    IN IF text = <<>> THEN None
       ELSE IF open_braces <= 0 /\ open_brackets <= 0 THEN None
       ELSE Some(text \o Repeat("}", open_braces) \o Repeat("]", open_brackets))

\* lines 86-94
_repair_truncated_json(text) ==
    LET open_braces == Count(text, "{") - Count(text, "}")
        open_brackets == Count(text, "[") - Count(text, "]")
    IN IF text = <<>> THEN None
       ELSE IF open_braces <= 0 /\ open_brackets <= 0 THEN None
       ELSE Some(text \o Repeat("]", open_brackets) \o Repeat("}", open_braces))

\* text.find(token, start): the first position from start on, 0 when there is none;
\* the opening fence with "json" holds the plain fence
Find(text, toks, start) ==
    LET hits == {i \in DOMAIN text : i >= start /\ text[i] \in toks}
    IN IF hits = {} THEN 0 ELSE CHOOSE i \in hits : \A j \in hits : i <= j

\* lines 60-69: the content of the first markdown block, when there is one
ExtractBlock(text) ==
    LET opener == IF Find(text, {FenceJson}, 1) # 0 THEN Find(text, {FenceJson}, 1)
                  ELSE Find(text, {Fence}, 1)
        end == Find(text, {Fence, FenceJson}, opener + 1)
    IN IF opener = 0 THEN text
       ELSE IF end # 0 THEN SubSeq(text, opener + 1, end - 1)
       ELSE SubSeq(text, opener + 1, Len(text))

\* lines 55-83: the text json.loads accepted, None when there is none
_parse_gemini_json(response_text) ==
    IF response_text = <<>> THEN None
    ELSE LET text == ExtractBlock(response_text)
             repaired == _repair_truncated_json(text)
         IN IF JsonLoads(text) THEN Some(text)
            ELSE IF IsSome(repaired) /\ JsonLoads(Val(repaired)) THEN repaired
            ELSE None

InitParse ==
    /\ InitPipeline
    /\ fn_args \in {Some(t) : t \in Texts}
    /\ fn_result = None
    /\ InitVerifierIdle

CallParse ==
    /\ IsSome(fn_args)
    /\ fn_result = None
    /\ fn_result' = Some(_parse_gemini_json(Val(fn_args)))
    /\ UNCHANGED <<pc, request, db, submission, image_store, analysis, exc, response,
                   viewed, fn_args, gem_vars, other_vars>>

SpecParse == InitParse /\ [][CallParse]_vars

\* a valid JSON object cut off so that only closers are missing: the text opens
\* an object, is well formed as far as it goes, and leaves containers open
Truncated(text) ==
    /\ text # <<>>
    /\ text[1] = "{"
    /\ Scan(text).ok
    /\ Scan(text).stack # <<>>

\* the closers a truncated text lacks, innermost container first
MissingClosers(text) ==
    LET stack == Scan(text).stack
    IN [i \in 1..Len(stack) |-> IF stack[Len(stack) + 1 - i] = "{" THEN "}" ELSE "]"]

\* no object is left open inside an array that is left open
ObjectsOutsideArrays(text) ==
    LET stack == Scan(text).stack
    IN \A i, j \in DOMAIN stack : (stack[i] = "[" /\ i < j) => stack[j] = "["

InitQuality ==
    /\ InitPipeline
    /\ fn_args \in
          {Some(UndecodableImage)}
          \cup {Some(TruncatedImage(m, w, h)) :
                  m \in {"L", "RGB"}, w \in {320, 640}, h \in {240, 480}}
          \cup {Some(DecodedImage(w, h, v, b)) :
                  w \in {320, 639, 640, 800}, h \in {240, 479, 480, 600},
                  v \in {100, 499, 500}, b \in {30, 49, 50}}
    /\ fn_result = None
    /\ InitVerifierIdle

CallCheckImageQuality ==
    /\ IsSome(fn_args)
    /\ fn_result = None
    /\ fn_result' = Some(check_image_quality(Val(fn_args)))
    /\ UNCHANGED <<pc, request, db, submission, image_store, analysis, exc, response,
                   viewed, fn_args, gem_vars, other_vars>>

SpecQuality == InitQuality /\ [][CallCheckImageQuality]_vars

\* the input of the claim's example: too small, too blurry and too dark at once
SmallBlurryDark(img) ==
    /\ img.opens /\ img.loads
    /\ img.w < 640 \/ img.h < 480
    /\ img.edge_variance < 500
    /\ img.brightness < 50

(***************************************************************************)
(* C17, as stated: an image that is too small, too blurry and too dark at  *)
(* once gets quality score 0 with is_too_small, is_blurry and is_too_dark  *)
(* all true.                                                               *)
(***************************************************************************)
C17_AllThreeDefectsScoreZero ==
    (IsSome(fn_result) /\ SmallBlurryDark(Val(fn_args))) =>
        /\ Val(fn_result).score = 0
        /\ Val(fn_result).is_too_small
        /\ Val(fn_result).is_blurry
        /\ Val(fn_result).is_too_dark

(***************************************************************************)
(* C17, amended: an image that is too small, too blurry and too dark at    *)
(* once gets quality score 10 (100 - 30 - 40 - 20; the clamp at 0 is never *)
(* reached) with is_too_small, is_blurry and is_too_dark all true.         *)
(***************************************************************************)
C17_AllThreeDefectsScoreTen ==
    (IsSome(fn_result) /\ SmallBlurryDark(Val(fn_args))) =>
        /\ Val(fn_result).score = 10
        /\ Val(fn_result).is_too_small
        /\ Val(fn_result).is_blurry
        /\ Val(fn_result).is_too_dark

C17_Witness ==
    /\ IsSome(fn_result)
    /\ Val(fn_args) = DecodedImage(320, 240, 100, 30)
    /\ Val(fn_result).score = 10
    /\ Val(fn_result).is_too_small /\ Val(fn_result).is_blurry /\ Val(fn_result).is_too_dark

(***************************************************************************)
(* C18: check_image_quality always returns an integer score in 0..100;     *)
(* when the image decodes, the score is 100 minus 30 if too small (width   *)
(* < 640 or height < 480), minus 40 if blurry (edge variance < 500), minus *)
(* 20 if too dark (mean brightness < 50), each flag set exactly when its   *)
(* deduction applies; when the image cannot be decoded the score is 0 and  *)
(* all three flags are false.                                              *)
(***************************************************************************)
C18_QualityContract ==
    IsSome(fn_result) =>
        LET img == Val(fn_args)
            q == Val(fn_result)
        IN /\ q.score \in 0..100
           /\ (img.opens /\ img.loads) =>
                 /\ q.is_too_small = (img.w < 640 \/ img.h < 480)
                 /\ q.is_blurry = (img.edge_variance < 500)
                 /\ q.is_too_dark = (img.brightness < 50)
                 /\ q.score = 100 - (IF q.is_too_small THEN 30 ELSE 0)
                                  - (IF q.is_blurry THEN 40 ELSE 0)
                                  - (IF q.is_too_dark THEN 20 ELSE 0)
           /\ ~(img.opens /\ img.loads) =>
                 /\ q.score = 0
                 /\ ~q.is_too_small /\ ~q.is_blurry /\ ~q.is_too_dark

(***************************************************************************)
(* Direct calls of detect_and_blur_faces.  An outcome with ok = FALSE is a *)
(* call in which a step raised after the given detections were handled.    *)
(***************************************************************************)
InitFaces ==
    /\ InitPipeline
    /\ fn_args \in
          {Some([image_bytes |-> OriginalImage(TRUE),
                 outcome |-> [ok |-> ok, detections |-> ds]]) :
              ok \in BOOLEAN, ds \in DetectionsUpTo(MaxDetections)}
          \cup {Some([image_bytes |-> OriginalImage(FALSE),
                      outcome |-> [ok |-> FALSE, detections |-> <<>>]])}
    /\ fn_result = None
    /\ InitVerifierIdle

CallDetectAndBlurFaces ==
    /\ IsSome(fn_args)
    /\ fn_result = None
    /\ fn_result' = Some(detect_and_blur_faces(Val(fn_args).image_bytes, Val(fn_args).outcome))
    /\ UNCHANGED <<pc, request, db, submission, image_store, analysis, exc, response,
                   viewed, fn_args, gem_vars, other_vars>>

SpecFaces == InitFaces /\ [][CallDetectAndBlurFaces]_vars

(***************************************************************************)
(* C19: detect_and_blur_faces never raises: if any step of decoding,       *)
(* detection or blurring fails it returns exactly the original input bytes *)
(* with faces_detected = 0 and faces_blurred = 0; in every result          *)
(* 0 <= faces_blurred <= faces_detected, and faces_detected equals the     *)
(* number of detections reported by the model when processing succeeds.    *)
(***************************************************************************)
C19_FacesFailOpen ==
    IsSome(fn_result) =>
        LET a == Val(fn_args)
            r == Val(fn_result)
        IN /\ Len(r) = 3
           /\ 0 <= r[3] /\ r[3] <= r[2]
           /\ ~a.outcome.ok => r = <<a.image_bytes, 0, 0>>
           /\ a.outcome.ok => r[2] = Len(a.outcome.detections) /\ r[1].redacted

C19_Witness ==
    /\ IsSome(fn_result)
    /\ ~Val(fn_args).outcome.ok
    /\ Len(Val(fn_args).outcome.detections) = 2
    /\ Val(fn_result) = <<OriginalImage(TRUE), 0, 0>>

(***************************************************************************)
(* photo_processor.py, extract_exif_metadata.  A file is what exifread     *)
(* makes of it: process_file raises or returns the tags; a coordinate tag  *)
(* holds its values (degrees, minutes, seconds), a reference tag its       *)
(* letter.  Coordinates of the result are in arc-seconds.                  *)
(***************************************************************************)
\* datetime.strptime(dt_str, '%Y:%m:%d %H:%M:%S') of the strings it accepts
ParsedDateTimes == ("2024:05:01 10:00:00" :> <<2024, 5, 1, 10, 0, 0>>)

\* the tags of a file: None when the file does not hold the tag
ExifTags ==
    [lat : {None, Some(<<48, 51, 30>>), Some(<<48>>)},
     lat_ref : {None, Some("N"), Some("S")},
     lon : {None, Some(<<2, 17, 40>>), Some(<<2>>)},
     lon_ref : {None, Some("E"), Some("W")},
     datetime_original : {None, Some("2024:05:01 10:00:00"), Some("0000:00:00 00:00:00")},
     model : {None, Some("Pixel 8")},
     lens_model : {None, Some("50mm")}]

\* lines 107-114
DefaultExifResult ==
    [has_gps |-> FALSE, gps_lat |-> None, gps_lng |-> None, timestamp |-> None,
     camera_model |-> None, has_exif |-> FALSE]

\* lines 133 and 137: degrees + minutes / 60 + seconds / 3600, in arc-seconds
DmsToArcSeconds(values) == values[1] * 3600 + values[2] * 60 + values[3]

\* lines 126-139 raise: a coordinate with fewer than three values (IndexError), or a
\* missing reference tag, whose default 'N' or 'E' is a str without .values
GpsConversionRaises(tags) ==
    /\ IsSome(tags.lat) /\ IsSome(tags.lon)
    /\ \/ Len(Val(tags.lat)) < 3
       \/ Len(Val(tags.lon)) < 3
       \/ tags.lat_ref = None
       \/ tags.lon_ref = None

\* lines 89-163
extract_exif_metadata(file) ==
    IF ~file.readable \/ (\A k \in DOMAIN file.tags : file.tags[k] = None)
    THEN DefaultExifResult
    ELSE LET tags == file.tags
             seen == [DefaultExifResult EXCEPT !.has_exif = TRUE]
             lat == DmsToArcSeconds(Val(tags.lat))
             lon == DmsToArcSeconds(Val(tags.lon))
             located ==
                 IF IsSome(tags.lat) /\ IsSome(tags.lon)
                 THEN [seen EXCEPT !.has_gps = TRUE,
                                   !.gps_lat = Some(IF tags.lat_ref = Some("S") THEN 0 - lat ELSE lat),
                                   !.gps_lng = Some(IF tags.lon_ref = Some("W") THEN 0 - lon ELSE lon)]
                 ELSE seen
             dated ==
                 IF IsSome(tags.datetime_original)
                    /\ Val(tags.datetime_original) \in DOMAIN ParsedDateTimes
                 THEN [located EXCEPT !.timestamp =
                                          Some(ParsedDateTimes[Val(tags.datetime_original)])]
                 ELSE located
         IN IF GpsConversionRaises(tags) THEN seen
            ELSE [dated EXCEPT !.camera_model =
                                   IF IsSome(tags.model) THEN tags.model ELSE tags.lens_model]

InitExif ==
    /\ InitPipeline
    /\ fn_args \in {Some([readable |-> r, tags |-> t]) : r \in BOOLEAN, t \in ExifTags}
    /\ fn_result = None
    /\ InitVerifierIdle

CallExtractExifMetadata ==
    /\ IsSome(fn_args)
    /\ fn_result = None
    /\ fn_result' = Some(extract_exif_metadata(Val(fn_args)))
    /\ UNCHANGED <<pc, request, db, submission, image_store, analysis, exc, response,
                   viewed, fn_args, gem_vars, other_vars>>

SpecExif == InitExif /\ [][CallExtractExifMetadata]_vars

\* the file holds no metadata, or a part of its metadata cannot be parsed
MetadataMissingOrUnparseable(file) ==
    \/ ~file.readable
    \/ \A k \in DOMAIN file.tags : file.tags[k] = None
    \/ GpsConversionRaises(file.tags)
    \/ /\ IsSome(file.tags.datetime_original)
       /\ Val(file.tags.datetime_original) \notin DOMAIN ParsedDateTimes

(***************************************************************************)
(* C20: extract_exif_metadata never raises for any input bytes; whenever   *)
(* the metadata is missing or parsing any part of it fails, the returned   *)
(* result has has_exif = false and has_gps = false.                        *)
(***************************************************************************)
C20_FailedParseGivesNoExif ==
    (IsSome(fn_result) /\ MetadataMissingOrUnparseable(Val(fn_args))) =>
        /\ ~Val(fn_result).has_exif
        /\ ~Val(fn_result).has_gps

(***************************************************************************)
(* The pipeline's analyzers, claims C21 to C30                             *)
(***************************************************************************)
AnalyzerOrder ==
    <<"detect_and_blur_faces", "check_image_quality", "verify_gps_location",
      "extract_exif_metadata", "verify_with_gemini">>

Called == [i \in 1..Len(calls) |-> calls[i].analyzer]

\* the run has gone through every step of the try block up to the decision
AnalyzersDone == pc = "decide"

(***************************************************************************)
(* C21: within one run the analyzers execute in the order face redaction,  *)
(* quality analysis, GPS verification, EXIF extraction and validation, AI  *)
(* verification, each exactly once; the quality analyzer and the AI        *)
(* verifier are given the output of the redaction step of the same run and *)
(* no other bytes.                                                         *)
(***************************************************************************)
C21_AnalyzersInOrderEachOnce ==
    AnalyzersDone =>
        /\ Called = AnalyzerOrder
        /\ \A i \in 1..Len(calls) :
              calls[i].analyzer \in {"check_image_quality", "verify_with_gemini"} =>
                  calls[i].image_bytes = processed_image

\* the committed row of the run has the given status
Committed(status) == IsSome(db) /\ Val(db).status = status

AnalyzerEntries == {"gps", "exif", "quality", "faces", "gemini"}

(***************************************************************************)
(* C22: whenever a submission ends rejected, its persisted                 *)
(* verification_result holds the output of every analyzer: the gps entry,  *)
(* the exif entry, the quality entry, the faces entry and the AI entry     *)
(* (a result or null), whichever finding caused the rejection.             *)
(***************************************************************************)
C22_RejectedKeepsEveryOutput ==
    (pc = "done" /\ Committed("rejected")) =>
        /\ IsSome(Val(db).verification_result)
        /\ AnalyzerEntries \subseteq DOMAIN Val(Val(db).verification_result)

(***************************************************************************)
(* C27: every submission record that create_submission commits in status   *)
(* processing has reached verified or rejected by the time the request     *)
(* ends, however the request ends, a failed commit in the pipeline or in   *)
(* the error handler and a failed save of the image included.              *)
(***************************************************************************)
C27_NoRecordLeftProcessing ==
    (pc = "done" /\ IsSome(db)) => Val(db).status \in {"verified", "rejected"}

(***************************************************************************)
(* C28: in every committed state of a submission the status and its        *)
(* dependent fields agree: verified implies rejection_reason is null and   *)
(* image_url_full is the non-empty path returned by save_image; rejected   *)
(* implies rejection_reason is non-empty; processing implies               *)
(* rejection_reason is null and image_url_full is empty.                   *)
(***************************************************************************)
C28_StatusAndFieldsAgree ==
    IsSome(db) =>
        /\ Val(db).status \in {"processing", "verified", "rejected"}
        /\ Val(db).status = "verified" =>
              /\ Val(db).rejection_reason = None
              /\ Val(db).image_url_full = RelativePath
              /\ Val(db).image_url_full # ""
              /\ image_store # {}
        /\ Val(db).status = "rejected" =>
              /\ IsSome(Val(db).rejection_reason)
              /\ Val(Val(db).rejection_reason) # <<>>
        /\ Val(db).status = "processing" =>
              /\ Val(db).rejection_reason = None
              /\ Val(db).image_url_full = ""

\* a row verified and then rejected by the handler, after rows in each status
C28_Witness ==
    /\ pc = "done"
    /\ Committed("rejected")
    /\ Val(db).image_url_full = RelativePath
    /\ Val(exc) = "response"

C30_VerifiedHasFullQuality ==
    Committed("verified") => Val(db).quality_score = Some(100)

(***************************************************************************)
(* Direct calls of haversine_distance on coordinates in degrees            *)
(***************************************************************************)
\* gps_verification.py line 20: Earth's radius in meters
R == 6371000

\* 2 * math.sin(math.radians(d) / 2) ** 2, exact for multiples of 90 degrees
TwiceSinHalfSquared(d) ==
    LET m == d % 360 IN
    IF m = 0 THEN 0 ELSE IF m = 180 THEN 2 ELSE 1

\* math.cos(math.radians(lat)) for the latitudes -90, 0 and 90
CosLatitude(lat) == IF lat = 0 THEN 1 ELSE 0

\* haversine_degrees without the square of the first term, keeping its sign
haversine_degrees_Signed(lat1, lon1, lat2, lon2) ==
    LET twice_a == (IF lat2 < lat1 THEN -1 ELSE 1) * TwiceSinHalfSquared(lat2 - lat1)
                   + CosLatitude(lat1) * CosLatitude(lat2) * TwiceSinHalfSquared(lon2 - lon1)
    IN ((R \div 1000) * 31416 * twice_a) \div 20

\* gps_verification.py lines 6-36 on (lat, lon) in degrees: a is computed
\* from the two differences, c = 2 * atan2(sqrt(a), sqrt(1 - a)) is 0, pi/2
\* or pi for a = 0, 1/2 or 1, and the distance is R * c in meters
haversine_degrees(lat1, lon1, lat2, lon2) ==
    LET twice_a == TwiceSinHalfSquared(lat2 - lat1)
                   + CosLatitude(lat1) * CosLatitude(lat2) * TwiceSinHalfSquared(lon2 - lon1)
    IN ((R \div 1000) * 31416 * twice_a) \div 20

InitHaversine ==
    /\ InitPipeline
    /\ fn_args \in {Some([lat1 |-> a, lon1 |-> b, lat2 |-> c, lon2 |-> d]) :
                       a \in {-90, 0, 90}, b \in {-180, -90, 0, 90, 180},
                       c \in {-90, 0, 90}, d \in {-180, -90, 0, 90, 180}}
    /\ fn_result = None
    /\ InitVerifierIdle

CallHaversine ==
    /\ IsSome(fn_args)
    /\ fn_result = None
    /\ LET a == Val(fn_args) IN
       fn_result' = Some(haversine_degrees(a.lat1, a.lon1, a.lat2, a.lon2))
    /\ UNCHANGED <<pc, request, db, submission, image_store, analysis, exc, response,
                   viewed, fn_args, gem_vars, other_vars>>

SpecHaversine == InitHaversine /\ [][CallHaversine]_vars

(***************************************************************************)
(* C25: haversine_distance is symmetric, zero on identical points and      *)
(* never negative: distance(a,b) = distance(b,a), distance(a,a) = 0 and    *)
(* distance(a,b) >= 0 for all coordinate pairs a, b.                       *)
(***************************************************************************)
C25_SymmetricZeroNonNegative ==
    IsSome(fn_result) =>
        LET a == Val(fn_args) IN
        /\ Val(fn_result) = haversine_degrees(a.lat2, a.lon2, a.lat1, a.lon1)
        /\ (a.lat1 = a.lat2 /\ a.lon1 = a.lon2) => Val(fn_result) = 0
        /\ Val(fn_result) >= 0

\* two points a quarter turn of longitude apart on the equator
C25_Witness ==
    /\ IsSome(fn_result)
    /\ Val(fn_args) = [lat1 |-> 0, lon1 |-> -90, lat2 |-> 0, lon2 |-> 0]
    /\ Val(fn_result) > 0

(***************************************************************************)
(* The region detect_and_blur_faces blurs for one detection                *)
(***************************************************************************)
\* photo_processor.py lines 46-64. img.size of PIL is (width, height), and
\* line 46 unpacks it as h, w. The relative bounding box is in quarters of
\* the image, so int(bbox.xmin * w) is (xmin * w) \div 4.
blur_region(size, bbox) ==
    LET h == size[1]
        w == size[2]
        padding == 20
        x == Max(0, (bbox.xmin * w) \div 4 - padding)
        y == Max(0, (bbox.ymin * h) \div 4 - padding)
        width == Min(w - x, (bbox.width * w) \div 4 + 2 * padding)
        height == Min(h - y, (bbox.height * h) \div 4 + 2 * padding)
    IN [x |-> x, y |-> y, width |-> width, height |-> height]

InitRegion ==
    /\ InitPipeline
    /\ fn_args \in {Some([size |-> sz,
                          bbox |-> [xmin |-> bx[1], width |-> bx[2],
                                    ymin |-> by[1], height |-> by[2]]]) :
                       sz \in {<<200, 200>>, <<400, 200>>, <<200, 400>>},
                       bx \in {b \in (0..3) \X (1..4) : b[1] + b[2] <= 4},
                       by \in {b \in (0..3) \X (1..4) : b[1] + b[2] <= 4}}
    /\ fn_result = None
    /\ InitVerifierIdle

CallBlurRegion ==
    /\ IsSome(fn_args)
    /\ fn_result = None
    /\ fn_result' = Some(blur_region(Val(fn_args).size, Val(fn_args).bbox))
    /\ UNCHANGED <<pc, request, db, submission, image_store, analysis, exc, response,
                   viewed, fn_args, gem_vars, other_vars>>

SpecRegion == InitRegion /\ [][CallBlurRegion]_vars

\* the box scaled by W horizontally and H vertically, expanded by 20 pixels on
\* each side and clamped to the image
ScaledPaddedClamped(W, H, bbox) ==
    LET left == Max(0, (bbox.xmin * W) \div 4 - 20)
        top == Max(0, (bbox.ymin * H) \div 4 - 20)
    IN [x |-> left, y |-> top,
        width |-> Min(W - left, (bbox.width * W) \div 4 + 40),
        height |-> Min(H - top, (bbox.height * H) \div 4 + 40)]

(***************************************************************************)
(* C26: for every detection whose relative bounding box lies within [0,1]  *)
(* on an image of width W and height H, W # H included, the blurred region *)
(* is the box scaled by W horizontally and H vertically, expanded by 20    *)
(* pixels on each side and clamped to the image (0 <= x, 0 <= y,           *)
(* x + width <= W, y + height <= H), and it covers the detected box.       *)
(***************************************************************************)
C26_RegionIsScaledPaddedClampedBox ==
    IsSome(fn_result) =>
        LET W == Val(fn_args).size[1]
            H == Val(fn_args).size[2]
            bbox == Val(fn_args).bbox
            r == Val(fn_result)
        IN /\ r = ScaledPaddedClamped(W, H, bbox)
           /\ 0 <= r.x /\ 0 <= r.y
           /\ r.x + r.width <= W
           /\ r.y + r.height <= H
           /\ 4 * r.x <= bbox.xmin * W
           /\ 4 * r.y <= bbox.ymin * H
           /\ 4 * (r.x + r.width) >= (bbox.xmin + bbox.width) * W
           /\ 4 * (r.y + r.height) >= (bbox.ymin + bbox.height) * H

(***************************************************************************)
(* verify_magic_link (auth/magic_link.py lines 64-108), called twice with  *)
(* the same token, each call in its own database session (get_db). The     *)
(* steps of the two calls interleave at the statements that reach the      *)
(* database; each query reads the committed state.                         *)
(***************************************************************************)
Callers == {1, 2}

Session(at, user, expired, status_code) ==
    [pc |-> at, user |-> user, queried_after_expiry |-> expired, response |-> status_code]

InitMagicLink ==
    /\ InitPipeline
    /\ fn_args = None
    /\ fn_result = None
    /\ gem_pc = "idle"
    /\ api_key = FALSE
    /\ http_options = None
    /\ attempt = 0
    /\ tries = 0
    /\ http_attempts = 0
    /\ error = None
    /\ sleeps = <<>>
    /\ gem_result = None
    /\ magic_link \in {Some([used |-> u, expired |-> x]) : u, x \in BOOLEAN}
    /\ users \in {None} \cup {Some([is_verified |-> v]) : v \in BOOLEAN}
    /\ sessions = [i \in Callers |-> Session("query", None, FALSE, None)]
    /\ rows = <<>>
    /\ files = <<>>
    /\ runs = <<>>
    /\ face_detection = None

magic_link_unchanged ==
    UNCHANGED <<pc, request, db, submission, image_store, analysis, exc, response,
                viewed, fn_args, fn_result, gem_vars, rows, files, runs,
                face_detection>>

\* lines 78-88: the token is looked up with used == False and expires_at in the
\* future; without such a row the call raises HTTP 400
QueryToken(i) ==
    /\ sessions[i].pc = "query"
    /\ LET row == Val(magic_link) IN
       IF ~row.used /\ ~row.expired
       THEN sessions' = [sessions EXCEPT ![i] = Session("find_user", None, FALSE, None)]
       ELSE sessions' = [sessions EXCEPT ![i] = Session("done", None, row.expired, Some(400))]
    /\ UNCHANGED <<magic_link, users>>
    /\ magic_link_unchanged

\* lines 90-104: used = True is set on the session's object, the user of the
\* email is looked up, and a new User is added when there is none
FindOrCreateUser(i) ==
    /\ sessions[i].pc = "find_user"
    /\ sessions' = [sessions EXCEPT ![i] = Session("commit", users, FALSE, None)]
    /\ UNCHANGED <<magic_link, users>>
    /\ magic_link_unchanged

\* lines 106-108 and api/routes/auth.py lines 93-109: the commit updates the
\* token row by its primary key, whatever its committed value of used, and
\* inserts the new user or updates the existing one; the insert fails on the
\* unique email when another session has created the user meanwhile. An
\* exception of the commit is answered with HTTP 400 by the route.
Commit(i) ==
    /\ sessions[i].pc = "commit"
    /\ \/ /\ sessions[i].user = None => users = None
          /\ magic_link' = Some([Val(magic_link) EXCEPT !.used = TRUE])
          /\ users' = Some([is_verified |-> TRUE])
          /\ sessions' = [sessions EXCEPT ![i].pc = "done", ![i].response = Some(200)]
       \/ /\ sessions' = [sessions EXCEPT ![i].pc = "done", ![i].response = Some(400)]
          /\ UNCHANGED <<magic_link, users>>
    /\ magic_link_unchanged

\* the clock passes expires_at
TokenExpires ==
    /\ magic_link # None
    /\ ~Val(magic_link).expired
    /\ magic_link' = Some([Val(magic_link) EXCEPT !.expired = TRUE])
    /\ UNCHANGED <<users, sessions>>
    /\ magic_link_unchanged

NextMagicLink ==
    \/ \E i \in Callers : QueryToken(i)
    \/ \E i \in Callers : FindOrCreateUser(i)
    \/ \E i \in Callers : Commit(i)
    \/ TokenExpires

SpecMagicLink == InitMagicLink /\ [][NextMagicLink]_vars

Verified == {i \in DOMAIN sessions : sessions[i].response = Some(200)}

(***************************************************************************)
(* C24: a magic-link token is verified successfully at most once: the      *)
(* first successful verify_magic_link marks the token used and every other *)
(* call with the same token, afterwards or concurrently, fails with HTTP   *)
(* 400; a token past its expiry never verifies.                            *)
(***************************************************************************)
C24_TokenVerifiesAtMostOnce ==
    /\ Cardinality(Verified) <= 1
    /\ Verified # {} => Val(magic_link).used
    /\ \A i \in DOMAIN sessions :
          /\ sessions[i].queried_after_expiry => sessions[i].response = Some(400)
          /\ sessions[i].pc = "done" => sessions[i].response \in {Some(200), Some(400)}

(***************************************************************************)
(* Two runs of create_submission for different submissions. Each run keeps *)
(* its findings and images in local variables; the runs share the database *)
(* (one row per submission id), the upload directory (one file per         *)
(* submission id) and the module's face_detection object. Their steps      *)
(* interleave at the statements of the route.                              *)
(***************************************************************************)
RunIds == {1, 2}

\* process returning the detections of the image the object was given before
process_Previous(detector, img_array) ==
    IF detector = None THEN img_array.faces ELSE Val(detector).faces

\* photo_processor.py lines 37-40: face_detection.process(img_array) returns
\* the detections of the array it is given
process(detector, img_array) == img_array.faces

Uploads == [image : [name : {"a", "b"}, faces : 0..1, is_blurry : BOOLEAN],
            in_range : BOOLEAN]

Run(at, upload, processed_image_, faces_detected, errors) ==
    [pc |-> at, upload |-> upload, processed_image |-> processed_image_,
     faces_detected |-> faces_detected, verification_errors |-> errors]

InitTwoRuns ==
    /\ InitPipeline
    /\ fn_args = None
    /\ fn_result = None
    /\ gem_pc = "idle"
    /\ api_key = FALSE
    /\ http_options = None
    /\ attempt = 0
    /\ tries = 0
    /\ http_attempts = 0
    /\ error = None
    /\ sleeps = <<>>
    /\ gem_result = None
    /\ magic_link = None
    /\ users = None
    /\ sessions = <<>>
    /\ rows = <<>>
    /\ files = <<>>
    /\ runs \in [RunIds -> {Run("create", u, None, 0, <<>>) : u \in Uploads}]
    /\ face_detection = None

two_runs_unchanged ==
    UNCHANGED <<pc, request, db, submission, image_store, analysis, exc, response,
                viewed, fn_args, fn_result, gem_vars, magic_link, users, sessions>>

\* submissions.py lines 181-196: the row is committed under a fresh uuid4
StartRun(r) ==
    /\ runs[r].pc = "create"
    /\ rows' = (r :> [status |-> "processing", rejection_reason |-> None,
                      verification_result |-> None]) @@ rows
    /\ runs' = [runs EXCEPT ![r].pc = "faces"]
    /\ UNCHANGED <<files, face_detection>>
    /\ two_runs_unchanged

\* submissions.py lines 203-206 and photo_processor.py lines 29-82
Redact(r) ==
    /\ runs[r].pc = "faces"
    /\ LET img == runs[r].upload.image
           detections == process(face_detection, img)
       IN /\ face_detection' = Some(img)
          /\ runs' = [runs EXCEPT ![r].pc = "analyze",
                                  ![r].processed_image =
                                      Some([name |-> img.name, blurred |-> detections]),
                                  ![r].faces_detected = detections]
    /\ UNCHANGED <<rows, files>>
    /\ two_runs_unchanged

\* submissions.py lines 208-328: the findings of the run's own image and position
Analyze(r) ==
    /\ runs[r].pc = "analyze"
    /\ runs' = [runs EXCEPT
                   ![r].pc = "decide",
                   ![r].verification_errors =
                       (IF runs[r].upload.image.is_blurry THEN <<"QUALITY_BLUR">> ELSE <<>>)
                       \o (IF ~runs[r].upload.in_range THEN <<"GPS_OUT_OF_RANGE">> ELSE <<>>)]
    /\ UNCHANGED <<rows, files, face_detection>>
    /\ two_runs_unchanged

\* submissions.py lines 330-373 and image_storage.py lines 45-57: the row of
\* the run's submission id is updated; a verified run writes its processed
\* image to the path made of its submission id
Finish(r) ==
    /\ runs[r].pc = "decide"
    /\ LET vr == [faces |-> runs[r].faces_detected,
                  is_blurry |-> runs[r].upload.image.is_blurry,
                  gps |-> runs[r].upload.in_range]
           errors == runs[r].verification_errors
       IN IF errors # <<>>
          THEN /\ rows' = [rows EXCEPT ![r] = [status |-> "rejected",
                                               rejection_reason |-> Some(errors[1]),
                                               verification_result |-> Some(vr)]]
               /\ UNCHANGED files
          ELSE /\ files' = (r :> Val(runs[r].processed_image)) @@ files
               /\ rows' = [rows EXCEPT ![r] = [status |-> "verified",
                                               rejection_reason |-> None,
                                               verification_result |-> Some(vr)]]
    /\ runs' = [runs EXCEPT ![r].pc = "done"]
    /\ UNCHANGED face_detection
    /\ two_runs_unchanged

NextTwoRuns ==
    \/ \E r \in RunIds : StartRun(r)
    \/ \E r \in RunIds : Redact(r)
    \/ \E r \in RunIds : Analyze(r)
    \/ \E r \in RunIds : Finish(r)

SpecTwoRuns == InitTwoRuns /\ [][NextTwoRuns]_vars

\* what a run of the upload produces when it executes alone
AloneErrors(u) ==
    (IF u.image.is_blurry THEN <<"QUALITY_BLUR">> ELSE <<>>)
    \o (IF ~u.in_range THEN <<"GPS_OUT_OF_RANGE">> ELSE <<>>)
AloneRow(u) ==
    [status |-> IF AloneErrors(u) = <<>> THEN "verified" ELSE "rejected",
     rejection_reason |-> IF AloneErrors(u) = <<>> THEN None ELSE Some(AloneErrors(u)[1]),
     verification_result |-> Some([faces |-> u.image.faces, is_blurry |-> u.image.is_blurry,
                                   gps |-> u.in_range])]
AloneFile(u) == [name |-> u.image.name, blurred |-> u.image.faces]

====
